---------------------------- MODULE Spec2Model ----------------------------
(***************************************************************************)
(* Minewire server: the Minecraft-protocol front end (handleConnection,    *)
(* processPacket), the post-login handshake sequence and the tunnel        *)
(* session (startMuxTunnel: ingest goroutine, housekeeping goroutine, mux  *)
(* accept loop, MinecraftConn.Write), over the codec of the protocol       *)
(* primitives (ReadVarInt, WriteVarInt, WriteString, WritePacket).         *)
(*                                                                         *)
(* One TCP connection is modelled: every connection runs its own           *)
(* handleConnection goroutine over its own socket, reader and state.       *)
(* Bytes are naturals 0..255.  A byte buffer is a record [d, z]: the bytes *)
(* d followed by z bytes of value 0, so that a body of 2^20 bytes is a     *)
(* small value.                                                            *)
(***************************************************************************)
EXTENDS Integers, Sequences, FiniteSets, TLC

(***************************************************************************)
(* Bounds of the model.                                                    *)
(***************************************************************************)
\* Events of the environment in one behaviour: frames the peer sends, ticks of
\* the two tickers, Write calls of the mux.
MaxEvents == 4
MaxStreams == 1
MaxSess == 2

(***************************************************************************)
(* Packet ids (handler.go, const block) and limits.                        *)
(***************************************************************************)
PID_CB_StatusResp == 0
PID_CB_Ping == 1
PID_CB_LoginSuccess == 2
PID_CB_LoginDisconnect == 0
PID_CB_JoinGame == 41
PID_CB_KeepAlive == 36
PID_CB_ChunkData == 37
PID_CB_PlayerPos == 62
PID_CB_TimeUpdate == 98
PID_SB_PluginMsg == 13
MaxPacketLen == 1048576
MaxStringLen == 32773
NonceSize == 12
TagSize == 16
WorldTimeStep == 400

TunnelIds ==
    {PID_CB_LoginSuccess, PID_CB_JoinGame, PID_CB_PlayerPos,
     PID_CB_KeepAlive, PID_CB_ChunkData, PID_CB_TimeUpdate}

(***************************************************************************)
(* Byte buffers (bytes.Buffer / the body of a frame).                      *)
(***************************************************************************)
Buf(d, z) == [d |-> d, z |-> z]

BufLen(b) == Len(b.d) + b.z

FirstByte(b) == IF Len(b.d) > 0 THEN Head(b.d) ELSE 0

DropByte(b) == IF Len(b.d) > 0 THEN [b EXCEPT !.d = Tail(b.d)]
               ELSE [b EXCEPT !.z = b.z - 1]

\* bytes.Buffer.Next(n): skip n bytes, or all of them if fewer are left.
BufNext(b, n) ==
    IF n <= 0 THEN b
    ELSE IF n < Len(b.d) THEN [b EXCEPT !.d = SubSeq(b.d, n + 1, Len(b.d))]
    ELSE [d |-> <<>>, z |-> IF n - Len(b.d) >= b.z THEN 0 ELSE b.z - (n - Len(b.d))]

Zeros(n) == [i \in 1..n |-> 0]

\* The first n bytes of b, as bytes.Buffer.Read into a zeroed slice of n bytes
\* leaves them: what the buffer holds, then zeros.
BufReadInto(b, n) ==
    IF n <= Len(b.d) THEN SubSeq(b.d, 1, n)
    ELSE b.d \o Zeros(n - Len(b.d))

\* All the bytes left in a buffer whose zero tail is short (pBuf.Bytes()).
BufBytes(b) == b.d \o Zeros(b.z)

(***************************************************************************)
(* ReadVarInt: 7-bit groups, least significant first.  The result is a Go  *)
(* int (64 bits): the groups 0..3 are val, the fifth group is hi, and the  *)
(* value read is hi * 2^28 + val.  An error after six bytes ("too big"),   *)
(* or when the reader has no byte ("eof": the error of r.ReadByte).        *)
(***************************************************************************)
Pow2_28 == 268435456

Pow128(k) == CASE k = 0 -> 1 [] k = 1 -> 128 [] k = 2 -> 16384 [] OTHER -> 2097152

RECURSIVE ReadVarIntLoop(_, _, _, _)
ReadVarIntLoop(b, numRead, val, hi) ==
    IF BufLen(b) = 0 THEN [err |-> TRUE, why |-> "eof", val |-> 0, hi |-> 0, rest |-> b]
    ELSE LET read == FirstByte(b)
             rest == DropByte(b)
             value == read % 128
             val2 == IF numRead < 4 THEN val + value * Pow128(numRead) ELSE val
             hi2 == IF numRead = 4 THEN value ELSE hi
         IN  IF numRead + 1 > 5
             THEN [err |-> TRUE, why |-> "too big", val |-> 0, hi |-> 0, rest |-> rest]
             ELSE IF read < 128
             THEN [err |-> FALSE, why |-> "", val |-> val2, hi |-> hi2, rest |-> rest]
             ELSE ReadVarIntLoop(rest, numRead + 1, val2, hi2)

\* A reader that keeps only the first four groups.
ReadVarIntFourGroups(b) == [ReadVarIntLoop(b, 0, 0, 0) EXCEPT !.hi = 0]

ReadVarInt(b) == ReadVarIntLoop(b, 0, 0, 0)

\* WriteVarInt for a value in 0 .. 2^31-1: the bytes written, one Write each.
RECURSIVE WriteVarInt(_)
WriteVarInt(value) ==
    LET temp == value % 128
        v2 == value \div 128
    IN  IF v2 # 0 THEN <<temp + 128>> \o WriteVarInt(v2) ELSE <<temp>>

WriteString(s) == WriteVarInt(Len(s)) \o s

\* ReadString on a buffer: [err, s, rest].
ReadString(b) ==
    LET l == ReadVarInt(b)
    IN  IF l.err THEN [err |-> TRUE, s |-> <<>>, rest |-> l.rest]
        ELSE IF l.hi > 0 \/ l.val > MaxStringLen
        THEN [err |-> TRUE, s |-> <<>>, rest |-> l.rest]
        ELSE IF BufLen(l.rest) < l.val
        THEN [err |-> TRUE, s |-> <<>>, rest |-> Buf(<<>>, 0)]
        ELSE [err |-> FALSE, s |-> BufReadInto(l.rest, l.val),
              rest |-> BufNext(l.rest, l.val)]

(***************************************************************************)
(* Authenticator (initAuthMap).  SHA-256 is a table over the configured    *)
(* secrets: Sha256Hex8 is the first 8 hex digits of the digest (as ASCII), *)
(* Sha256 the digest itself, which is the AES key of the session.          *)
(***************************************************************************)
cfgPasswords == <<"hunter2", "s3cret">>

Sha256Hex8(pwd) ==
    CASE pwd = "hunter2" -> <<102, 53, 50, 102, 98, 100, 51, 50>>
      [] pwd = "s3cret" -> <<49, 101, 99, 49, 99, 50, 54, 98>>
      [] pwd = "pw57085" -> <<52, 57, 51, 102, 56, 49, 52, 57>>
      [] pwd = "pw89039" -> <<52, 57, 51, 102, 56, 49, 52, 57>>

Sha256(pwd) == [digestOf |-> pwd]

PlayerPrefix == <<80, 108, 97, 121, 101, 114>>

expectedUser(pwd) == PlayerPrefix \o Sha256Hex8(pwd)

\* validUsers after initAuthMap: a later entry of the configuration
\* overwrites an earlier one with the same generated name.
RECURSIVE initAuthMap(_, _)
initAuthMap(table, i) ==
    IF i > Len(cfgPasswords) THEN table
    ELSE LET pwd == cfgPasswords[i]
             others == {e \in table : e.name # expectedUser(pwd)}
         IN  initAuthMap(others \cup {[name |-> expectedUser(pwd), pwd |-> pwd]}, i + 1)

validUsers == initAuthMap({}, 1)

IsValidUser(name) == \E e \in validUsers : e.name = name

\* A lookup that answers the secret of the last entry, whatever the name.
PasswordOfLast(name) == cfgPasswords[Len(cfgPasswords)]

PasswordOf(name) == (CHOOSE e \in validUsers : e.name = name).pwd

(***************************************************************************)
(* AES-GCM (cipher.AEAD) as a keyed cipher of the same shape: the          *)
(* ciphertext is as long as the plaintext, the tag is TagSize bytes, and   *)
(* Open answers the plaintext only when the tag is the one Seal computes   *)
(* under the same key and nonce.                                           *)
(***************************************************************************)
KeyMask(key) == CASE key = Sha256("hunter2") -> 17 [] key = Sha256("s3cret") -> 34

RECURSIVE SumBytes(_)
SumBytes(s) == IF s = <<>> THEN 0 ELSE Head(s) + SumBytes(Tail(s))

AeadTag(key, nonce, pt) ==
    [i \in 1..TagSize |-> (3 * KeyMask(key) + SumBytes(nonce) + SumBytes(pt) + i) % 256]

AeadSeal(key, nonce, pt) ==
    nonce \o [i \in 1..Len(pt) |-> (pt[i] + KeyMask(key)) % 256] \o AeadTag(key, nonce, pt)

\* aead.Open(nil, nonce, ctAndTag, nil): [err, pt].
AeadOpen(key, nonce, ctAndTag) ==
    IF Len(ctAndTag) < TagSize THEN [err |-> TRUE, pt |-> <<>>]
    ELSE LET n == Len(ctAndTag) - TagSize
             pt == [i \in 1..n |-> (ctAndTag[i] + 256 - KeyMask(key)) % 256]
             tag == SubSeq(ctAndTag, n + 1, Len(ctAndTag))
         IN  IF tag = AeadTag(key, nonce, pt) THEN [err |-> FALSE, pt |-> pt]
             ELSE [err |-> TRUE, pt |-> <<>>]

(***************************************************************************)
(* Inbound frames.  A frame on the TCP stream is [hdr, d, z, cut]: hdr the *)
(* bytes of the VarInt length, then the body d followed by z zero bytes;   *)
(* cut means the peer stopped sending before the declared length.          *)
(***************************************************************************)
Frame(d, z) == [hdr |-> WriteVarInt(Len(d) + z), d |-> d, z |-> z, cut |-> FALSE]

ProtocolVersion == 773

HandshakeBody(nextState) ==
    <<0>> \o WriteVarInt(ProtocolVersion) \o WriteString(<<109, 99>>)
          \o <<99, 221>> \o WriteVarInt(nextState)

LoginStartBody(name) == <<0>> \o WriteString(name)

ChanTunnel == <<109, 105, 110, 101, 119, 105, 114, 101, 58, 116, 117, 110, 110, 101, 108>>
ChanBrand == <<109, 105, 110, 101, 99, 114, 97, 102, 116, 58, 98, 114, 97, 110, 100>>
ChanOther == <<109, 105, 110, 101, 99, 114, 97, 102, 116, 58, 111, 116, 104, 101, 114>>

PluginBody(channel, enc) == <<PID_SB_PluginMsg>> \o WriteString(channel) \o enc

ClientNonce == [i \in 1..NonceSize |-> 7]

\* Plaintexts of the inner (mux) stream as the peer sends them: the first
\* byte says what the multiplexer makes of it.
PtOpen == <<1>>
PtData == <<2>>

NameEvil == <<69, 118, 105, 108>>

F_Handshake(n) == Frame(HandshakeBody(n), 0)
F_Request == Frame(<<0>>, 0)
F_Ping == Frame(<<1, 0, 0, 0, 0, 222, 173, 190, 239>>, 0)
\* A ping whose id is written in two bytes (a VarInt 1 that is not minimal).
F_PingLong == Frame(<<129, 0, 5, 6>>, 0)
F_Login(name) == Frame(LoginStartBody(name), 0)
\* A Login Start that declares a name one byte over the cap of ReadString,
\* and carries none of it.
F_LoginLong == Frame(<<0>> \o WriteVarInt(MaxStringLen + 1), 0)
F_Unknown == Frame(<<5, 1>>, 0)
F_Empty == Frame(<<>>, 0)
F_Overlong == [hdr |-> <<255, 255, 255, 255, 255, 255>>, d |-> <<>>, z |-> 0, cut |-> FALSE]
F_Max == Frame(<<127>>, MaxPacketLen - 1)
F_Oversize == Frame(<<127>>, MaxPacketLen)
F_Cut == [hdr |-> WriteVarInt(9), d |-> <<1, 0>>, z |-> 0, cut |-> TRUE]
F_Plugin(channel, pwd, pt) ==
    Frame(PluginBody(channel, AeadSeal(Sha256(pwd), ClientNonce, pt)), 0)
F_BadTag(pwd, pt) ==
    LET enc == AeadSeal(Sha256(pwd), ClientNonce, pt)
    IN  Frame(PluginBody(ChanTunnel, [enc EXCEPT ![Len(enc)] = (enc[Len(enc)] + 1) % 256]), 0)
F_ShortNonce == Frame(PluginBody(ChanTunnel, <<7, 7, 7>>), 0)
\* A length prefix of 2^35 - 1 (negative where int has 32 bits), no body yet.
F_Huge == [hdr |-> <<255, 255, 255, 255, 127>>, d |-> <<>>, z |-> 0, cut |-> TRUE]

(***************************************************************************)
(* State.                                                                  *)
(*   proc       the server process: where main is (pc), the configured     *)
(*              passwords (items), and the two tables of initAuthMap       *)
(*   codec      one use of a pure function: of the VarInt codec (a value,  *)
(*              the bytes WriteVarInt made of it, what ReadVarInt made of  *)
(*              those), or of createPackedHeights (a value, the longs)     *)
(*   motion     a MotionGenerator: X, Y, Z, Angle, Speed, and the number   *)
(*              of Update calls made on it                                 *)
(*   online     currentOnline, onlineLock and the goroutines that use them *)
(*   sockq      frames the peer has sent that the server has not yet read  *)
(*   rbuf       frames held by the connection's bufio.Reader               *)
(*   events     number of events of the environment so far                 *)
(*   cph        the phase of the protocol the peer is in                   *)
(*   peerGone   the peer has closed: reads end, writes fail                *)
(*   connOpen   conn.Close() has not been called; closeCalls counts calls  *)
(*   state      handleConnection's state variable                         *)
(*   hpc        where the handleConnection goroutine is                    *)
(*   nsess      number of tunnel sessions started on the connection        *)
(*   last       the packet processPacket was last called with, and the     *)
(*              state it was called in                                     *)
(*   rejSess    nsess when a login was first rejected, -1 before           *)
(*   wire       the Write calls that reached the socket, in order          *)
(*   nextSer    serial number of the next WritePacket call                 *)
(* and per session s: sessName/sessKey (login name, AES key), the ingest   *)
(* goroutine (ingPc, ingPt, ingested, inner), the housekeeping goroutine   *)
(* (hkPc, hkW, worldTime), the mux session (muxSt, muxW, and muxRet: what *)
(* each finished MinecraftConn.Write returned) and its inner streams       *)
(* (streams), and for each stream the two io.Copy goroutines of            *)
(* handleStream with their done channel (copies).                          *)
(***************************************************************************)
VARIABLES proc, codec, motion, online, sockq, rbuf, events, cph, peerGone, connOpen, closeCalls, state, hpc,
          nsess, last, rejSess, wire, nextSer,
          sessName, sessKey, ingPc, ingPt, ingested, inner,
          hkPc, hkW, worldTime, muxSt, muxW, muxRet, copies, streams

netVars == <<sockq, rbuf, events, cph, peerGone>>
connVars == <<connOpen, closeCalls>>
frontVars == <<state, hpc, nsess, last, rejSess>>
wireVars == <<wire, nextSer>>
ingVars == <<ingPc, ingPt, ingested, inner>>
hkVars == <<hkPc, hkW, worldTime>>
muxVars == <<muxSt, muxW, muxRet, copies, streams>>
sessVars == <<sessName, sessKey>>
vars == <<proc, codec, motion, online, netVars, connVars, frontVars, wireVars, ingVars, hkVars, muxVars, sessVars>>

Sessions == 1..MaxSess

\* p and nonce: the argument and the nonce of a MinecraftConn.Write (else empty).
NoWrite == [id |-> -1, ser |-> 0, k |-> 0, n |-> 0, p |-> <<>>, nonce |-> <<>>]

NoPacket == [st |-> -1, body |-> Buf(<<>>, 0), alloc |-> 0]

\* The frames a peer may send.  The peer follows the phases of the protocol
\* as it has driven them (cph: nothing sent that changes the phase, a status
\* handshake sent, a login handshake sent, an authorized Login Start sent) and
\* in each phase sends any of the frames that phase gives a meaning to, well
\* formed or not.
LoginValid == F_Login(expectedUser("hunter2"))

StartFrames ==
    {F_Handshake(1), F_Handshake(2), F_Handshake(3), F_Request,
     F_Unknown, F_Overlong, F_Max, F_Oversize}

StatusFrames ==
    {F_Request, F_Ping, F_PingLong, F_Unknown, F_Empty, F_Overlong, F_Max, F_Oversize}

LoginFrames ==
    {LoginValid, F_Login(NameEvil), F_Login(<<>>), F_LoginLong, F_Unknown, F_Empty,
     F_Overlong, F_Max, F_Oversize}

TunnelFrames ==
    {F_Plugin(ChanTunnel, "hunter2", PtOpen), F_Plugin(ChanBrand, "hunter2", PtData),
     F_Plugin(ChanTunnel, "s3cret", PtData), F_Plugin(ChanOther, "hunter2", PtData),
     F_BadTag("hunter2", PtData), F_ShortNonce,
     F_Unknown, LoginValid, F_Overlong, F_Max, F_Oversize, F_Huge}

PhaseFrames(ph) ==
    CASE ph = "start" -> StartFrames
      [] ph = "status" -> StatusFrames
      [] ph = "login" -> LoginFrames
      [] ph = "tunnel" -> TunnelFrames

ClientPhases == {"start", "status", "login", "tunnel"}

PhaseAfter(ph, f) ==
    CASE ph = "start" /\ f = F_Handshake(1) -> "status"
      [] ph = "start" /\ f = F_Handshake(2) -> "login"
      [] ph = "login" /\ f = LoginValid -> "tunnel"
      [] OTHER -> ph

\* The two io.Copy goroutines of handleStream: "up" copies from the stream to
\* the target, "down" from the target to the stream.  pc is where each is,
\* eof the directions whose reader has ended, done the number of values in
\* the channel done.
Dirs == {"up", "down"}
NoCopy == [pc |-> [d \in Dirs |-> "idle"], eof |-> {}, done |-> 0]

\* A connection as handleConnection starts on it.
ConnInit ==
    /\ sockq = <<>> /\ rbuf = <<>> /\ events = 0 /\ cph = "start" /\ peerGone = FALSE
    /\ connOpen = TRUE /\ closeCalls = 0
    /\ state = 0 /\ hpc = "loop" /\ nsess = 0
    /\ last = NoPacket /\ rejSess = -1
    /\ wire = <<>> /\ nextSer = 1
    /\ sessName = [s \in Sessions |-> <<>>]
    /\ sessKey = [s \in Sessions |-> Sha256("")]
    /\ ingPc = [s \in Sessions |-> "none"]
    /\ ingPt = [s \in Sessions |-> <<>>]
    /\ ingested = [s \in Sessions |-> <<>>]
    /\ inner = [s \in Sessions |-> <<>>]
    /\ hkPc = [s \in Sessions |-> "none"]
    /\ hkW = [s \in Sessions |-> NoWrite]
    /\ worldTime = [s \in Sessions |-> 0]
    /\ muxSt = [s \in Sessions |-> "none"]
    /\ muxW = [s \in Sessions |-> NoWrite]
    /\ muxRet = [s \in Sessions |-> <<>>]
    /\ streams = [s \in Sessions |-> <<>>]
    /\ copies = [s \in Sessions |-> [i \in 1..MaxStreams |-> NoCopy]]

(***************************************************************************)
(* The process: main reads the configuration, runs initAuthMap over        *)
(* cfg.Passwords, then listens.  An item of cfg.Passwords is [pwd, nick],  *)
(* nick "" for an item that is a bare string.                              *)
(***************************************************************************)
\* hashAndRegister: both tables are Go maps; an assignment to a key that is
\* present replaces its value.
hashAndRegister(maps, pwd, nick) ==
    [validUsers |-> {e \in maps.validUsers : e.name # expectedUser(pwd)}
                        \cup {[name |-> expectedUser(pwd), pwd |-> pwd]},
     nicknameMap |-> IF nick = "" THEN maps.nicknameMap
                     ELSE {e \in maps.nicknameMap : e.nick # nick}
                              \cup {[nick |-> nick, pwd |-> pwd]}]

Item(pwd, nick) == [pwd |-> pwd, nick |-> nick]

\* The process once main has reached its accept loop with cfgPasswords.
Booted ==
    [pc |-> "listening",
     items |-> [i \in 1..Len(cfgPasswords) |-> Item(cfgPasswords[i], "")],
     i |-> Len(cfgPasswords) + 1,
     validUsers |-> validUsers, nicknameMap |-> {}]

\* The process is in its accept loop, and stays there.
Running == proc.pc = "listening" /\ proc' = proc /\ codec' = codec /\ motion' = motion /\ online' = online

\* ReadVarInt's answer on an empty reader.
NoRead == [err |-> TRUE, why |-> "eof", val |-> 0, hi |-> 0, rest |-> Buf(<<>>, 0)]

CodecIdle == [pc |-> "idle", n |-> 0, trailer |-> <<>>, w |-> <<>>, r |-> NoRead]

\* The player count left aside: currentOnline and onlineLock as the process
\* starts with them, no goroutine using them.
OnlineIdle ==
    [min |-> 0, max |-> 0, currentOnline |-> 0, lock |-> "free", simPc |-> "none",
     ticks |-> 0, reqPc |-> "none", on |-> 0, reported |-> <<>>]

\* No MotionGenerator in use.
MotionIdle == [X |-> 0, Y |-> 95, Z |-> 0, Angle |-> 0, Speed |-> 2, n |-> 0]

Init == ConnInit /\ proc = Booted /\ codec = CodecIdle /\ motion = MotionIdle /\ online = OnlineIdle

ConnUnchanged ==
    UNCHANGED <<codec, motion, online, netVars, connVars, frontVars, wireVars, ingVars, hkVars, muxVars, sessVars>>

MaxItems == 3
StartupPasswords == {"hunter2", "pw57085", "pw89039"}
StartupNicks == {"", "alice"}

StartupItems == {Item(pwd, nick) : pwd \in StartupPasswords, nick \in StartupNicks}

StartupConfigs == UNION {[1..n -> StartupItems] : n \in 1..MaxItems}

\* main has decoded server.yaml and calls initAuthMap.
StartupInit ==
    /\ ConnInit /\ codec = CodecIdle /\ motion = MotionIdle /\ online = OnlineIdle
    /\ proc \in {[pc |-> "init", items |-> items, i |-> 1,
                  validUsers |-> {}, nicknameMap |-> {}] : items \in StartupConfigs}

\* One turn of initAuthMap's loop over cfg.Passwords.
BootRegister ==
    /\ proc.pc = "init" /\ proc.i <= Len(proc.items)
    /\ LET item == proc.items[proc.i]
           maps == hashAndRegister(proc, item.pwd, item.nick)
       IN  proc' = [proc EXCEPT !.i = @ + 1, !.validUsers = maps.validUsers,
                                !.nicknameMap = maps.nicknameMap]
    /\ ConnUnchanged

\* net.Listen: main goes on to its accept loop, or log.Fatal ends it.
BootListen(ok) ==
    /\ proc.pc = "init" /\ proc.i > Len(proc.items)
    /\ proc' = [proc EXCEPT !.pc = IF ok THEN "listening" ELSE "fatal"]
    /\ ConnUnchanged

StartupNext == BootRegister \/ \E ok \in BOOLEAN : BootListen(ok)

StartupSpec == StartupInit /\ [][StartupNext]_vars

(***************************************************************************)
(* The VarInt codec by itself: a value of 0 .. 2^31 - 1 is written by      *)
(* WriteVarInt into a buffer that other bytes follow, and read back from   *)
(* it by ReadVarInt.                                                       *)
(***************************************************************************)
\* Values around every place where the length of the encoding or a 7-bit
\* group changes, up to 2^31 - 1.
VarIntInputs ==
    {m * Pow128(k) + e : m \in {1, 2, 127}, k \in 0..3, e \in {-1, 0, 1}}
        \cup {h * Pow2_28 + e : h \in 1..7, e \in {-1, 0, 1}}
        \cup {7 * Pow2_28 + (Pow2_28 - 1)}

\* What follows the VarInt in the buffer.
VarIntTrailers == {<<>>, <<0>>, <<255, 1>>}

\* Bytes given to ReadVarInt as they are: chains of continuation bytes, and
\* five-byte encodings whose fifth group has bits from 2^31 on.
VarIntRawInputs ==
    {<<255, 255, 255, 255, 255>>, <<128, 128, 128, 128, 128>>,
     <<255, 255, 255, 255, 255, 255>>, <<129, 128, 128, 128, 128, 128, 0>>,
     <<255, 255, 255, 255, 15>>, <<255, 255, 255, 255, 127>>,
     <<128, 128, 128, 128, 8>>, <<128, 128, 128, 128, 16>>,
     <<255, 255, 255, 255, 7>>, <<255, 255>>, <<0>>}

\* Values of both signs for WriteVarInt taken one turn of its loop at a time.
VarIntSignedInputs ==
    {0, 1, 127, 128, 16384, Pow2_28, 7 * Pow2_28 + (Pow2_28 - 1),
     -1, -128, -129, -Pow2_28, (-8) * Pow2_28}

\* The bytes the model lets WriteVarInt write.
MaxEmit == 7

\* The size of Go's int, which the build decides.
IntBits == {32, 64}

\* ReadVarInt's result is an int made by result |= int(value) << (7 * numRead):
\* where int has 32 bits the fifth group keeps its low four bits, the highest
\* of them as the sign; where it has 64 all seven bits of the group count.
GoIntFits32(r, bits) == bits = 32 \/ r.hi < 8

\* The int, where it fits 32 bits.
GoInt(r, bits) ==
    IF bits = 64 THEN r.hi * Pow2_28 + r.val
    ELSE IF r.hi % 16 >= 8 THEN ((r.hi % 16) - 16) * Pow2_28 + r.val
    ELSE (r.hi % 16) * Pow2_28 + r.val

CodecInit ==
    /\ ConnInit /\ proc = Booted /\ motion = MotionIdle /\ online = OnlineIdle
    /\ codec \in {[pc |-> "write", n |-> n, trailer |-> t, w |-> <<>>, r |-> NoRead] :
                     n \in VarIntInputs, t \in VarIntTrailers}
               \cup {[pc |-> "raw", n |-> 0, trailer |-> t, w |-> w, r |-> NoRead,
                      bits |-> b] :
                        w \in VarIntRawInputs, t \in VarIntTrailers, b \in IntBits}
               \cup {[pc |-> "emit", n |-> n, value |-> n, trailer |-> <<>>, w |-> <<>>,
                      r |-> NoRead] : n \in VarIntSignedInputs}

CodecUnchanged ==
    UNCHANGED <<proc, motion, online, netVars, connVars, frontVars, wireVars, ingVars, hkVars,
                muxVars, sessVars>>

CodecWrite ==
    /\ codec.pc = "write"
    /\ codec' = [codec EXCEPT !.pc = "read", !.w = WriteVarInt(codec.n)]
    /\ CodecUnchanged

CodecRead ==
    /\ codec.pc = "read"
    /\ codec' = [codec EXCEPT !.pc = "done",
                              !.r = ReadVarInt(Buf(codec.w \o codec.trailer, 0))]
    /\ CodecUnchanged

\* ReadVarInt on bytes that no WriteVarInt made.
CodecReadRaw ==
    /\ codec.pc = "raw"
    /\ codec' = [codec EXCEPT !.pc = "rawdone",
                              !.r = ReadVarInt(Buf(codec.w \o codec.trailer, 0))]
    /\ CodecUnchanged

\* One turn of WriteVarInt's loop: temp := byte(value & 0x7F); value >>= 7
\* (the shift of a signed int keeps the sign); the byte is written with 0x80
\* set while value is not 0, and the loop ends when it is.
CodecWriteByte ==
    /\ codec.pc = "emit" /\ Len(codec.w) < MaxEmit
    /\ LET temp == codec.value % 128
           value == codec.value \div 128
       IN  codec' = [codec EXCEPT !.value = value,
                                  !.w = Append(@, IF value # 0 THEN temp + 128 ELSE temp),
                                  !.pc = IF value = 0 THEN "emitted" ELSE "emit"]
    /\ CodecUnchanged

CodecNext == CodecWrite \/ CodecRead \/ CodecReadRaw \/ CodecWriteByte

CodecSpec == CodecInit /\ [][CodecNext]_vars

(***************************************************************************)
(* The peer.                                                               *)
(***************************************************************************)
ClientSend(f) ==
    /\ Running
    /\ ~peerGone /\ connOpen /\ events < MaxEvents
    /\ f \in PhaseFrames(cph)
    /\ sockq' = Append(sockq, f)
    /\ events' = events + 1
    /\ cph' = PhaseAfter(cph, f)
    /\ UNCHANGED <<rbuf, peerGone, connVars, frontVars, wireVars, ingVars,
                   hkVars, muxVars, sessVars>>

\* The peer closes its end, possibly in the middle of a frame.
ClientClose(partial) ==
    /\ Running
    /\ ~peerGone
    /\ peerGone' = TRUE
    /\ sockq' = IF partial /\ connOpen THEN Append(sockq, F_Cut) ELSE sockq
    /\ UNCHANGED <<rbuf, events, cph, connVars, frontVars, wireVars, ingVars,
                   hkVars, muxVars, sessVars>>

(***************************************************************************)
(* The connection's reader (bufio.Reader over the socket), as both         *)
(* handleConnection and the ingest goroutine use it.                       *)
(***************************************************************************)
ReaderHasFrame == rbuf # <<>> \/ (connOpen /\ sockq # <<>>)

\* No byte is buffered and the socket will give none: the read fails.
ReaderFails == rbuf = <<>> /\ (~connOpen \/ (sockq = <<>> /\ peerGone))

ReaderFrame == IF rbuf # <<>> THEN Head(rbuf) ELSE Head(sockq)

ReaderRest == IF rbuf # <<>> THEN Tail(rbuf) ELSE Tail(sockq)

ReaderSock == IF rbuf # <<>> THEN sockq ELSE <<>>

\* io.ReadFull of the body fails: the frame is cut and no more bytes will come.
BodyFails(f) == f.cut /\ (~connOpen \/ peerGone)

FrameLength(f) == ReadVarInt(Buf(f.hdr, 0))

FrameBody(f) == Buf(f.d, f.z)

TooLong(len) == len.hi > 0 \/ len.val > MaxPacketLen

(***************************************************************************)
(* Writing to the socket.  A Write call reaches the peer while the socket  *)
(* is open and the peer is there; otherwise it fails.  WritePacket makes   *)
(* one Write call per byte of the VarInt length and one for the body.      *)
(***************************************************************************)
CanWrite == connOpen /\ ~peerGone

PacketLen(id, payloadLen) == Len(WriteVarInt(id)) + payloadLen

\* The Write calls of WritePacket for a packet of the given length.
WritePacketParts(id, payloadLen) == Len(WriteVarInt(PacketLen(id, payloadLen))) + 1

BeginWrite(id, payloadLen) ==
    [id |-> id, ser |-> nextSer, k |-> 1, n |-> WritePacketParts(id, payloadLen),
     p |-> <<>>, nonce |-> <<>>]

WireEntry(w, s) ==
    [ser |-> w.ser, id |-> w.id, sess |-> s, k |-> w.k, n |-> w.n, p |-> w.p, nonce |-> w.nonce]

\* WritePacket by the handleConnection goroutine, in one step (k = 0: every
\* Write call of the packet): no other goroutine of the connection writes to an
\* open socket while handleConnection does, since the session's goroutines
\* start after the handshake sequence, handleConnection then waits in Accept,
\* and Accept returns only when the session has closed the socket.
HandlerWritePayload(id, s, data) ==
    /\ wire' = IF CanWrite
               THEN Append(wire, [ser |-> nextSer, id |-> id, sess |-> s, k |-> 0, n |-> 0,
                                   p |-> data, nonce |-> <<>>])
               ELSE wire
    /\ nextSer' = nextSer + 1

\* A packet whose payload the model does not look into.
HandlerWritePacket(id, s) == HandlerWritePayload(id, s, <<>>)

(***************************************************************************)
(* processPacket.  Errors of ReadVarInt are dropped: the value is then 0.  *)
(***************************************************************************)
VarIntValue(r) == r.hi * Pow2_28 + r.val

\* A dispatch on the low part of the id only.
PacketIdLow(body) == VarIntValue(ReadVarInt(body)) % 5

PacketId(body) == VarIntValue(ReadVarInt(body))

\* Handshake case: the state the packet sets.
HandshakeNextState(body) ==
    LET afterId == ReadVarInt(body).rest
        afterVersion == ReadVarInt(afterId).rest
        l == ReadVarInt(afterVersion)
        afterAddress == IF l.hi > 0 THEN Buf(<<>>, 0) ELSE BufNext(l.rest, l.val)
        afterPort == BufNext(afterAddress, 2)
    IN  VarIntValue(ReadVarInt(afterPort))

\* A reply that echoes the whole packet, id included.
PingPayloadWhole(body) == BufBytes(body)

\* Status case, ping: pBuf.Bytes() once the id has been read.
PingPayload(body) == BufBytes(ReadVarInt(body).rest)

\* Login case: the username of a Login Start.
\* Login case: the length of the slice made for the username, which is the
\* length the packet declares.
NameAlloc(body) == VarIntValue(ReadVarInt(ReadVarInt(body).rest))

LoginName(body) ==
    LET l == ReadVarInt(ReadVarInt(body).rest)
    IN  BufReadInto(l.rest, VarIntValue(l))

CloseConn ==
    /\ connOpen' = FALSE
    /\ closeCalls' = closeCalls + 1

\* handleConnection: ReadVarInt of the length, the sanity check or
\* io.ReadFull fails; the socket is closed and the goroutine returns.
HandlerReadFail ==
    /\ Running
    /\ hpc = "loop"
    /\ \/ ReaderFails
       \/ /\ ReaderHasFrame
          /\ LET f == ReaderFrame
             IN  FrameLength(f).err \/ TooLong(FrameLength(f)) \/ BodyFails(f)
    /\ IF ReaderFails THEN UNCHANGED <<rbuf, sockq>>
       ELSE rbuf' = ReaderRest /\ sockq' = ReaderSock
    /\ CloseConn
    /\ hpc' = "done"
    /\ UNCHANGED <<events, cph, peerGone, state, nsess, last, rejSess, wireVars, ingVars,
                   hkVars, muxVars, sessVars>>

\* handleConnection reads one frame and calls processPacket with its body.
HandlerDispatch ==
    /\ Running
    /\ hpc = "loop"
    /\ ReaderHasFrame
    /\ LET f == ReaderFrame
           body == FrameBody(f)
           pid == PacketId(body)
           name == LoginName(body)
       IN  /\ ~FrameLength(f).err /\ ~TooLong(FrameLength(f)) /\ ~f.cut
           /\ rbuf' = ReaderRest /\ sockq' = ReaderSock
           /\ last' = [st |-> state, body |-> body,
                       alloc |-> IF state = 2 /\ pid = 0 THEN NameAlloc(body) ELSE 0]
           /\ CASE state = 0 /\ pid = 0 ->
                     /\ state' = HandshakeNextState(body)
                     /\ UNCHANGED <<hpc, nsess, rejSess, connVars, wireVars, sessVars>>
                [] state = 1 /\ pid = 0 ->
                     /\ HandlerWritePacket(PID_CB_StatusResp, 0)
                     /\ UNCHANGED <<state, hpc, nsess, rejSess, connVars, sessVars>>
                [] state = 1 /\ pid = 1 ->
                     /\ HandlerWritePayload(PID_CB_Ping, 0, PingPayload(body))
                     /\ UNCHANGED <<state, hpc, nsess, rejSess, connVars, sessVars>>
                [] state = 2 /\ pid = 0 /\ IsValidUser(name) ->
                     /\ nsess < MaxSess
                     /\ nsess' = nsess + 1
                     /\ sessName' = [sessName EXCEPT ![nsess + 1] = name]
                     /\ sessKey' = [sessKey EXCEPT ![nsess + 1] = Sha256(PasswordOf(name))]
                     /\ hpc' = "hs1"
                     /\ UNCHANGED <<state, rejSess, connVars, wireVars>>
                [] state = 2 /\ pid = 0 /\ ~IsValidUser(name) ->
                     /\ HandlerWritePacket(PID_CB_LoginDisconnect, 0)
                     /\ CloseConn
                     /\ rejSess' = IF rejSess = -1 THEN nsess ELSE rejSess
                     /\ UNCHANGED <<state, hpc, nsess, sessVars>>
                [] OTHER ->
                     UNCHANGED <<state, hpc, nsess, rejSess, connVars, wireVars, sessVars>>
    /\ UNCHANGED <<events, cph, peerGone, ingVars, hkVars, muxVars>>

\* The sequence with its first two packets exchanged.
HandshakeSequenceSwapped == <<PID_CB_JoinGame, PID_CB_LoginSuccess, PID_CB_PlayerPos>>

\* startDeepCoverSession: Login Success, Join Game, Player Position.
HandshakeSequence == <<PID_CB_LoginSuccess, PID_CB_JoinGame, PID_CB_PlayerPos>>

HandshakeStep(i) ==
    /\ Running
    /\ hpc = <<"hs1", "hs2", "hs3">>[i]
    /\ HandlerWritePacket(HandshakeSequence[i], nsess)
    /\ hpc' = <<"hs2", "hs3", "mux">>[i]
    /\ UNCHANGED <<netVars, connVars, state, nsess, last, rejSess, ingVars,
                   hkVars, muxVars, sessVars>>

\* startMuxTunnel up to the accept loop: the pipe, the two goroutines and the
\* mux session (yamux.Server with the default configuration does not fail).
StartMuxTunnel ==
    /\ Running
    /\ hpc = "mux"
    /\ ingPc' = [ingPc EXCEPT ![nsess] = "read"]
    /\ hkPc' = [hkPc EXCEPT ![nsess] = "select"]
    /\ muxSt' = [muxSt EXCEPT ![nsess] = "run"]
    /\ hpc' = "accept"
    /\ UNCHANGED <<netVars, connVars, state, nsess, last, rejSess, wireVars,
                   ingPt, ingested, inner, hkW, worldTime, muxW, muxRet, copies,
                   streams, sessVars>>

(***************************************************************************)
(* The ingest goroutine of startMuxTunnel.                                 *)
(***************************************************************************)
IsTunnelChannel(channel) == channel = ChanBrand \/ channel = ChanTunnel

\* An ingest that does not look at the result of aead.Open.
IngestPacketResultNoAuth(key, body) ==
    LET drop == [deliver |-> FALSE, pt |-> <<>>]
        channel == ReadString(ReadVarInt(body).rest)
        enc == BufBytes(channel.rest)
        pt == AeadOpen(key, SubSeq(enc, 1, NonceSize), SubSeq(enc, NonceSize + 1, Len(enc)))
    IN  IF PacketId(body) # PID_SB_PluginMsg THEN drop
        ELSE IF ~IsTunnelChannel(channel.s) THEN drop
        ELSE IF Len(enc) < NonceSize THEN drop
        ELSE [deliver |-> TRUE, pt |-> pt.pt]

\* What the goroutine does with the body of one packet: [deliver, pt].
IngestPacketResult(key, body) ==
    LET drop == [deliver |-> FALSE, pt |-> <<>>]
        channel == ReadString(ReadVarInt(body).rest)
        enc == BufBytes(channel.rest)
        pt == AeadOpen(key, SubSeq(enc, 1, NonceSize), SubSeq(enc, NonceSize + 1, Len(enc)))
    IN  IF PacketId(body) # PID_SB_PluginMsg THEN drop
        ELSE IF ~IsTunnelChannel(channel.s) THEN drop
        ELSE IF Len(enc) < NonceSize THEN drop
        ELSE IF pt.err THEN drop
        ELSE [deliver |-> TRUE, pt |-> pt.pt]

\* ReadVarInt of the length or io.ReadFull fails: the goroutine returns and
\* its deferred pw.Close() closes the pipe.
IngestFail(s) ==
    /\ Running
    /\ ingPc[s] = "read"
    /\ \/ ReaderFails
       \/ /\ ReaderHasFrame
          /\ (FrameLength(ReaderFrame).err \/ BodyFails(ReaderFrame))
    /\ IF ReaderFails THEN UNCHANGED <<rbuf, sockq>>
       ELSE rbuf' = ReaderRest /\ sockq' = ReaderSock
    /\ ingPc' = [ingPc EXCEPT ![s] = "exit"]
    /\ UNCHANGED <<events, cph, peerGone, connVars, frontVars, wireVars, ingPt, ingested,
                   inner, hkVars, muxVars, sessVars>>

\* One turn of the loop: a frame of any declared length is read whole, then
\* dropped or, if it is tunnel data, written to the pipe (pw.Write blocks
\* until the mux has read it).
IngestPacket(s) ==
    /\ Running
    /\ ingPc[s] = "read"
    /\ ReaderHasFrame
    /\ LET f == ReaderFrame
           r == IngestPacketResult(sessKey[s], FrameBody(f))
       IN  /\ ~FrameLength(f).err /\ ~f.cut
           /\ rbuf' = ReaderRest /\ sockq' = ReaderSock
           /\ ingested' = [ingested EXCEPT ![s] = Append(@, f)]
           /\ ingPc' = [ingPc EXCEPT ![s] = IF r.deliver THEN "pipe" ELSE "read"]
           /\ ingPt' = [ingPt EXCEPT ![s] = r.pt]
    /\ UNCHANGED <<events, cph, peerGone, connVars, frontVars, wireVars, inner,
                   hkVars, muxVars, sessVars>>

\* make([]byte, length) with the length the peer declared: from 2^31 on the
\* length is negative where int has 32 bits (makeslice panics) and is 2 GiB
\* or more where it has 64 (the runtime may be out of memory).
AllocMayFail(len) == len.hi >= 8

\* The allocation fails in the ingest goroutine, which has no recover: the
\* runtime ends the process.  Where the allocation succeeds the goroutine
\* waits in io.ReadFull (IngestFail, once the peer is gone).
IngestPanic(s) ==
    /\ proc.pc = "listening"
    /\ ingPc[s] = "read"
    /\ ReaderHasFrame
    /\ ~FrameLength(ReaderFrame).err /\ AllocMayFail(FrameLength(ReaderFrame))
    /\ proc' = [proc EXCEPT !.pc = "crashed"]
    /\ ConnUnchanged

(***************************************************************************)
(* The housekeeping goroutine of startMuxTunnel: a loop over two tickers   *)
(* with no way out.  The error of WritePacket is dropped.                  *)
(***************************************************************************)
KeepAlivePayloadLen == 8
TimeUpdatePayloadLen == 16

KeepAliveTick(s) ==
    /\ Running
    /\ hkPc[s] = "select" /\ events < MaxEvents
    /\ events' = events + 1
    /\ hkPc' = [hkPc EXCEPT ![s] = "write"]
    /\ hkW' = [hkW EXCEPT ![s] = BeginWrite(PID_CB_KeepAlive, KeepAlivePayloadLen)]
    /\ nextSer' = nextSer + 1
    /\ UNCHANGED <<sockq, rbuf, cph, peerGone, connVars, frontVars, wire, ingVars,
                   worldTime, muxVars, sessVars>>

\* Go's %: the remainder has the sign of the dividend.
GoRem(a, b) == IF a >= 0 THEN a % b ELSE -((-a) % b)

DayTicks == 24000

\* The two longs of a Time Update: WriteLong(buf, worldTime) and
\* WriteLong(buf, -worldTime%24000).
TimeUpdatePayload(wt) == <<wt, GoRem(-wt, DayTicks)>>

TimeTick(s) ==
    /\ Running
    /\ hkPc[s] = "select" /\ events < MaxEvents
    /\ events' = events + 1
    /\ worldTime' = [worldTime EXCEPT ![s] = @ + WorldTimeStep]
    /\ hkPc' = [hkPc EXCEPT ![s] = "write"]
    /\ hkW' = [hkW EXCEPT ![s] = [BeginWrite(PID_CB_TimeUpdate, TimeUpdatePayloadLen)
                                     EXCEPT !.p = TimeUpdatePayload(worldTime[s] + WorldTimeStep)]]
    /\ nextSer' = nextSer + 1
    /\ UNCHANGED <<sockq, rbuf, cph, peerGone, connVars, frontVars, wire, ingVars,
                   muxVars, sessVars>>

\* One Write call of the goroutine's WritePacket; after the last one, or a
\* failed one, the goroutine is back at its select.
HkWrite(s) ==
    /\ Running
    /\ hkPc[s] = "write"
    /\ LET w == hkW[s]
           more == CanWrite /\ w.k < w.n
       IN  /\ wire' = IF CanWrite THEN Append(wire, WireEntry(w, s)) ELSE wire
           /\ hkW' = [hkW EXCEPT ![s] = IF more THEN [w EXCEPT !.k = w.k + 1] ELSE NoWrite]
           /\ hkPc' = [hkPc EXCEPT ![s] = IF more THEN "write" ELSE "select"]
    /\ UNCHANGED <<netVars, connVars, frontVars, nextSer, ingVars, worldTime,
                   muxVars, sessVars>>

(***************************************************************************)
(* The mux session (yamux.Server over the MinecraftConn) as the code uses  *)
(* it: it reads the pipe through MinecraftConn.Read, writes through        *)
(* MinecraftConn.Write, hands streams to Accept and, when a read or a      *)
(* write fails, shuts down, which calls MinecraftConn.Close once.          *)
(***************************************************************************)
\* What the mux writes in one Write call: the 12-byte header of a frame of its
\* own, or the bytes a stream carries.
MuxPlaintexts == {Zeros(12), <<104, 105>>}

\* rand.Read(nonce) in MinecraftConn.Write.
ServerNonces == {[i \in 1..NonceSize |-> 3], [i \in 1..NonceSize |-> 200]}

\* MinecraftConn.Write: the payload of the Chunk Data packet around the
\* sealed bytes: chunk x and z, the NBT heightmap, then the VarInt length of
\* nonce, ciphertext and tag, those bytes, and seven VarInt 0.
ChunkPayloadLen(P) ==
    LET encLen == NonceSize + Len(P) + TagSize
    IN  (4 + 4 + 3 + 1 + (2 + 15) + 4 + 37 * 8 + 1)
        + Len(WriteVarInt(encLen)) + encLen + 7

\* binary.Write(w, binary.BigEndian, v) of an int32 that is not negative.
WriteInt(v) == <<(v \div 16777216) % 256, (v \div 65536) % 256, (v \div 256) % 256, v % 256>>

Pow2(k) == 2 ^ k

\* A packing with fields 8 bits apart.
createPackedHeightsNarrow(y) ==
    [longIndex \in 0..36 |->
        [bit \in 0..63 |->
            IF \E i \in 0..255 :
                  /\ i \div 7 = longIndex
                  /\ bit \in ((i % 7) * 8)..((i % 7) * 8 + 8)
                  /\ ((y % 512) \div Pow2(bit - (i % 7) * 8)) % 2 = 1
            THEN 1 ELSE 0]]

\* createPackedHeights: 37 longs, long number longIndex holding in its bits
\* bitOffset..bitOffset+8 the low 9 bits of y for each i in 0..255 with
\* longIndex = i / 7 and bitOffset = (i % 7) * 9.  A long is its 64 bits,
\* bit 0 the lowest.
createPackedHeights(y) ==
    [longIndex \in 0..36 |->
        [bit \in 0..63 |->
            IF \E i \in 0..255 :
                  /\ i \div 7 = longIndex
                  /\ bit \in ((i % 7) * 9)..((i % 7) * 9 + 8)
                  /\ ((y % 512) \div Pow2(bit - (i % 7) * 9)) % 2 = 1
            THEN 1 ELSE 0]]

\* WriteLong: the 8 bytes of a long, highest first.
WriteLongBits(bits) ==
    [m \in 1..8 |->
        LET low == 64 - 8 * m
        IN  bits[low] + 2 * bits[low + 1] + 4 * bits[low + 2] + 8 * bits[low + 3]
            + 16 * bits[low + 4] + 32 * bits[low + 5] + 64 * bits[low + 6]
            + 128 * bits[low + 7]]

RECURSIVE WriteHeights(_, _)
WriteHeights(heights, longIndex) ==
    IF longIndex > 36 THEN <<>>
    ELSE WriteLongBits(heights[longIndex]) \o WriteHeights(heights, longIndex + 1)

HeightmapName == <<77, 79, 84, 73, 79, 78, 95, 66, 76, 79, 67, 75, 73, 78, 71>>

\* WriteStringNBT: a 2-byte length, then the bytes.
WriteStringNBT(str) == <<Len(str) \div 256, Len(str) % 256>> \o str

HeightmapY == 64

\* The 37 longs as MinecraftConn.Write writes them.
PackedHeightBytes == WriteHeights(createPackedHeights(HeightmapY), 0)

\* The bytes MinecraftConn.Write puts before the sealed bytes.
ChunkDataPrefix(chunkX, chunkZ) ==
    WriteInt(chunkX) \o WriteInt(chunkZ) \o <<10, 0, 0>> \o <<12>>
        \o WriteStringNBT(HeightmapName) \o WriteInt(37)
        \o PackedHeightBytes \o <<0>>

\* The payload of the Chunk Data packet of MinecraftConn.Write(P).
ChunkDataPayload(key, P, nonce, chunkX, chunkZ) ==
    LET encrypted == AeadSeal(key, nonce, P)
    IN  ChunkDataPrefix(chunkX, chunkZ) \o WriteVarInt(Len(encrypted)) \o encrypted
            \o WriteVarInt(0) \o WriteVarInt(0) \o WriteVarInt(0) \o WriteVarInt(0)
            \o WriteVarInt(0) \o WriteVarInt(0) \o WriteVarInt(0)

MuxShutdown(s) ==
    /\ muxSt' = [muxSt EXCEPT ![s] = "shut"]
    /\ CloseConn

\* A read that hands the mux the newest bytes ahead of those it already has.
MuxReadAhead(s) ==
    /\ Running
    /\ muxSt[s] = "run" /\ ingPc[s] = "pipe"
    /\ inner' = [inner EXCEPT ![s] = <<ingPt[s]>> \o @]
    /\ ingPc' = [ingPc EXCEPT ![s] = "read"]
    /\ ingPt' = [ingPt EXCEPT ![s] = <<>>]
    /\ streams' = [streams EXCEPT ![s] =
                      IF ingPt[s] = PtOpen /\ Len(@) < MaxStreams
                      THEN Append(@, "pending") ELSE @]
    /\ UNCHANGED <<netVars, connVars, frontVars, wireVars, ingested, hkVars,
                   muxSt, muxW, muxRet, copies, sessVars>>

\* MinecraftConn.Read gives the mux what the ingest goroutine is writing.
MuxRead(s) ==
    /\ Running
    /\ muxSt[s] = "run" /\ ingPc[s] = "pipe"
    /\ inner' = [inner EXCEPT ![s] = Append(@, ingPt[s])]
    /\ ingPc' = [ingPc EXCEPT ![s] = "read"]
    /\ ingPt' = [ingPt EXCEPT ![s] = <<>>]
    /\ streams' = [streams EXCEPT ![s] =
                      IF ingPt[s] = PtOpen /\ Len(@) < MaxStreams
                      THEN Append(@, "pending") ELSE @]
    /\ UNCHANGED <<netVars, connVars, frontVars, wireVars, ingested, hkVars,
                   muxSt, muxW, muxRet, copies, sessVars>>

\* MinecraftConn.Read answers EOF once the ingest goroutine has closed the
\* pipe: the session shuts down.
MuxReadEOF(s) ==
    /\ Running
    /\ muxSt[s] = "run" /\ ingPc[s] = "exit"
    /\ MuxShutdown(s)
    /\ UNCHANGED <<netVars, frontVars, wireVars, ingVars, hkVars, muxW, muxRet, copies,
                   streams, sessVars>>

\* The mux calls MinecraftConn.Write(P): the packet is built and WritePacket
\* begins.
MuxWrite(s, P) ==
    /\ Running
    /\ muxSt[s] = "run" /\ muxW[s] = NoWrite /\ events < MaxEvents
    /\ events' = events + 1
    /\ \E nonce \in ServerNonces :
          muxW' = [muxW EXCEPT ![s] =
                      [BeginWrite(PID_CB_ChunkData, ChunkPayloadLen(P))
                          EXCEPT !.p = P, !.nonce = nonce]]
    /\ nextSer' = nextSer + 1
    /\ UNCHANGED <<sockq, rbuf, cph, peerGone, connVars, frontVars, wire, ingVars,
                   hkVars, muxSt, muxRet, copies, streams, sessVars>>

\* A Write that reports no byte written when WritePacket fails.
WriteResultCounting(w, err) ==
    [ser |-> w.ser, p |-> w.p, n |-> IF err THEN 0 ELSE Len(w.p), err |-> err]

\* What MinecraftConn.Write returns: len(b) and the error of WritePacket.
WriteResult(w, err) == [ser |-> w.ser, p |-> w.p, n |-> Len(w.p), err |-> err]

\* One Write call of that WritePacket.  After the last one
\* MinecraftConn.Write returns; a failed one makes it return the error, and
\* the session shuts down.
MuxWritePart(s) ==
    /\ Running
    /\ muxW[s] # NoWrite
    /\ LET w == muxW[s]
       IN  IF CanWrite
           THEN /\ wire' = Append(wire, WireEntry(w, s))
                /\ muxW' = [muxW EXCEPT ![s] = IF w.k < w.n THEN [w EXCEPT !.k = w.k + 1]
                                                 ELSE NoWrite]
                /\ muxRet' = [muxRet EXCEPT ![s] = IF w.k < w.n THEN @
                                                   ELSE Append(@, WriteResult(w, FALSE))]
                /\ UNCHANGED <<muxSt, connVars>>
           ELSE /\ muxW' = [muxW EXCEPT ![s] = NoWrite]
                /\ muxRet' = [muxRet EXCEPT ![s] = Append(@, WriteResult(w, TRUE))]
                /\ IF muxSt[s] = "run" THEN MuxShutdown(s)
                   ELSE UNCHANGED <<muxSt, connVars>>
                /\ UNCHANGED wire
    /\ UNCHANGED <<netVars, frontVars, nextSer, ingVars, hkVars, streams, copies,
                   sessVars>>

\* The accept loop of startMuxTunnel: go handleStream(stream).
AcceptStream(i) ==
    /\ Running
    /\ hpc = "accept" /\ muxSt[nsess] = "run"
    /\ i \in 1..Len(streams[nsess]) /\ streams[nsess][i] = "pending"
    /\ streams' = [streams EXCEPT ![nsess][i] = "dest"]
    /\ UNCHANGED <<netVars, connVars, frontVars, wireVars, ingVars, hkVars,
                   muxSt, muxW, muxRet, copies, sessVars>>

\* session.Accept fails once the session has shut down: startMuxTunnel,
\* startDeepCoverSession and processPacket return into handleConnection's loop.
AcceptReturn ==
    /\ Running
    /\ hpc = "accept" /\ muxSt[nsess] = "shut"
    /\ hpc' = "loop"
    /\ UNCHANGED <<netVars, connVars, state, nsess, last, rejSess, wireVars,
                   ingVars, hkVars, muxVars, sessVars>>

(***************************************************************************)
(* handleStream.  "dest": reading the destination; "copy": the two         *)
(* io.Copy goroutines run; "failed": the stream is closed with no target;  *)
(* "closed": stream and target are closed.                                 *)
(***************************************************************************)
SetStream(s, i, st) ==
    /\ Running
    /\ streams' = [streams EXCEPT ![s][i] = st]
    /\ UNCHANGED <<netVars, connVars, frontVars, wireVars, ingVars, hkVars,
                   muxSt, muxW, muxRet, copies, sessVars>>

\* What a peer can send as the destination of a stream: "a:1", a length
\* over ReadString's cap, a length of 2^32 - 1 (which is -1 where int has 32
\* bits), nothing at all.
DestGood == WriteString(<<97, 58, 49>>)
DestTooLong == WriteVarInt(MaxStringLen + 1)
DestNegative == <<255, 255, 255, 255, 15>>
StreamDests == {DestGood, DestTooLong, DestNegative, <<>>}

\* ReadString where int has 32 bits: a length from 2^31 on is negative, passes
\* the test length > 32773, and make([]byte, length) panics.
ReadStringPanics(b) ==
    LET l == ReadVarInt(b)
    IN  ~l.err /\ l.hi >= 8

\* The destination is read and the dial succeeds: the two io.Copy goroutines
\* start, handleStream waits on done.
StreamDial(s, i) ==
    /\ Running
    /\ i \in 1..Len(streams[s]) /\ streams[s][i] = "dest" /\ muxSt[s] = "run"
    /\ \E dest \in StreamDests : ~ReadString(Buf(dest, 0)).err
    /\ streams' = [streams EXCEPT ![s][i] = "copy"]
    /\ copies' = [copies EXCEPT ![s][i].pc = [d \in Dirs |-> "copy"]]
    /\ UNCHANGED <<netVars, connVars, frontVars, wireVars, ingVars, hkVars,
                   muxSt, muxW, muxRet, sessVars>>

\* ReadString fails (also when the session shuts down) or the dial fails:
\* handleStream returns, its deferred stream.Close() runs.
StreamFail(s, i) ==
    /\ i \in 1..Len(streams[s]) /\ streams[s][i] = "dest"
    /\ \E dest \in StreamDests, dialed \in BOOLEAN :
          muxSt[s] = "shut" \/ ReadString(Buf(dest, 0)).err \/ ~dialed
    /\ SetStream(s, i, "failed")

\* ReadString panics in handleStream, which has no recover: the runtime ends
\* the process.
StreamPanic(s, i) ==
    /\ proc.pc = "listening"
    /\ i \in 1..Len(streams[s]) /\ streams[s][i] = "dest" /\ muxSt[s] = "run"
    /\ \E dest \in StreamDests : ReadStringPanics(Buf(dest, 0))
    /\ proc' = [proc EXCEPT !.pc = "crashed"]
    /\ streams' = [streams EXCEPT ![s][i] = "panic"]
    /\ UNCHANGED <<codec, motion, online, netVars, connVars, frontVars, wireVars, ingVars, hkVars,
                   muxSt, muxW, muxRet, copies, sessVars>>

StreamUnchanged ==
    UNCHANGED <<netVars, connVars, frontVars, wireVars, ingVars, hkVars,
                muxSt, muxW, muxRet, streams, sessVars>>

\* The reader of one direction ends: the peer closes the stream ("up"), the
\* target closes its connection ("down").
ReaderEnds(s, i, d) ==
    /\ Running
    /\ i \in 1..Len(streams[s]) /\ copies[s][i].pc[d] = "copy"
    /\ d \notin copies[s][i].eof
    /\ copies' = [copies EXCEPT ![s][i].eof = @ \cup {d}]
    /\ StreamUnchanged

\* io.Copy returns: its reader gave EOF or an error, which it does once it
\* has ended, once handleStream has closed stream and target, and, for the
\* stream, once the session has shut down.
CopyReturn(s, i, d) ==
    /\ Running
    /\ i \in 1..Len(streams[s]) /\ copies[s][i].pc[d] = "copy"
    /\ \/ d \in copies[s][i].eof
       \/ streams[s][i] = "closed"
       \/ d = "up" /\ muxSt[s] = "shut"
    /\ copies' = [copies EXCEPT ![s][i].pc[d] = "send"]
    /\ StreamUnchanged

\* done := make(chan bool, 2)
DoneCap == 2

\* A channel with no buffer: a send goes through only to a waiting receiver.
CanSendUnbuffered(n, waiting) == waiting /\ n = 0

\* done <- true goes through while the buffer has room.
CanSend(n, waiting) == n < DoneCap

\* done <- true, and the goroutine ends.
CopySend(s, i, d) ==
    /\ Running
    /\ i \in 1..Len(streams[s]) /\ copies[s][i].pc[d] = "send"
    /\ CanSend(copies[s][i].done, streams[s][i] = "copy")
    /\ copies' = [copies EXCEPT ![s][i].pc[d] = "exit", ![s][i].done = @ + 1]
    /\ StreamUnchanged

\* <-done: handleStream returns, its deferred target.Close() and
\* stream.Close() run.
StreamCopyEnd(s, i) ==
    /\ Running
    /\ i \in 1..Len(streams[s]) /\ streams[s][i] = "copy"
    /\ copies[s][i].done > 0
    /\ copies' = [copies EXCEPT ![s][i].done = @ - 1]
    /\ streams' = [streams EXCEPT ![s][i] = "closed"]
    /\ UNCHANGED <<netVars, connVars, frontVars, wireVars, ingVars, hkVars,
                   muxSt, muxW, muxRet, sessVars>>

Next ==
    \/ \E ph \in ClientPhases : \E f \in PhaseFrames(ph) : ClientSend(f)
    \/ \E partial \in BOOLEAN : ClientClose(partial)
    \/ HandlerReadFail
    \/ HandlerDispatch
    \/ \E i \in 1..3 : HandshakeStep(i)
    \/ StartMuxTunnel
    \/ \E i \in 1..MaxStreams : AcceptStream(i)
    \/ AcceptReturn
    \/ \E s \in Sessions : IngestFail(s)
    \/ \E s \in Sessions : IngestPacket(s)
    \/ \E s \in Sessions : IngestPanic(s)
    \/ \E s \in Sessions : KeepAliveTick(s)
    \/ \E s \in Sessions : TimeTick(s)
    \/ \E s \in Sessions : HkWrite(s)
    \/ \E s \in Sessions : MuxRead(s)
    \/ \E s \in Sessions : MuxReadEOF(s)
    \/ \E s \in Sessions, P \in MuxPlaintexts : MuxWrite(s, P)
    \/ \E s \in Sessions : MuxWritePart(s)
    \/ \E s \in Sessions, i \in 1..MaxStreams : StreamDial(s, i)
    \/ \E s \in Sessions, i \in 1..MaxStreams : StreamFail(s, i)
    \/ \E s \in Sessions, i \in 1..MaxStreams : StreamPanic(s, i)
    \/ \E s \in Sessions, i \in 1..MaxStreams, d \in Dirs : ReaderEnds(s, i, d)
    \/ \E s \in Sessions, i \in 1..MaxStreams, d \in Dirs : CopyReturn(s, i, d)
    \/ \E s \in Sessions, i \in 1..MaxStreams, d \in Dirs : CopySend(s, i, d)
    \/ \E s \in Sessions, i \in 1..MaxStreams : StreamCopyEnd(s, i)

Spec == Init /\ [][Next]_vars

(***************************************************************************)
(* The MotionGenerator by itself.  Coordinates are whole blocks, Angle is  *)
(* in eighths of a turn, Speed in blocks; what getRandomFloat and the      *)
(* sines give is a choice among values of their range.                     *)
(***************************************************************************)
MaxUpdates == 2
fieldSize == 2000
minY == 85
maxY == 110

\* 1000 * cos and 1000 * sin of an angle given in eighths of a turn.
CosMilli(a) == CASE a % 8 = 0 -> 1000 [] a % 8 \in {1, 7} -> 707 [] a % 8 \in {2, 6} -> 0
                 [] a % 8 \in {3, 5} -> -707 [] OTHER -> -1000
SinMilli(a) == CosMilli(a + 6)

\* Speed: 2.0 + getRandomFloat() * 3.0.
Speeds == {2, 5}

\* generateTerrainHeight: 97.5 plus sines of amplitude 5 + 5 + 3 + 3 + 2.
TerrainHeights == {79, 97, 116}

\* A bound kept on one side only.
ClampLow(v, lo, hi) == IF v < lo THEN lo ELSE v

\* if v < lo { v = lo } else if v > hi { v = hi }
Clamp(v, lo, hi) == IF v < lo THEN lo ELSE IF v > hi THEN hi ELSE v

\* NewMotionGenerator gives X and Z of 0..255 (one random byte modulo
\* fieldSize) and Y = 95; the other positions are those of a generator that
\* has walked to the far walls and onto hills and ground.
MotionStarts == {<<0, 0>>, <<3, 255>>, <<255, 1998>>, <<2000, 2000>>, <<1997, 4>>}

MotionInit ==
    /\ ConnInit /\ proc = Booted /\ codec = CodecIdle /\ online = OnlineIdle
    /\ motion \in {[X |-> p[1], Y |-> y, Z |-> p[2], Angle |-> a, Speed |-> v, n |-> 0] :
                      p \in MotionStarts, y \in {minY, 95, maxY}, a \in 0..7, v \in Speeds}

\* MotionGenerator.Update with its random draws: the small turn, the
\* sharp turn (or none), the new speed (or none), and the terrain height at
\* the new position.
MotionUpdate(turn, sharp, speed, terrain) ==
    /\ motion.n < MaxUpdates
    /\ LET a1 == (motion.Angle + turn + sharp + 8) % 8
           x1 == motion.X + (CosMilli(a1) * speed) \div 1000
           z1 == motion.Z + (SinMilli(a1) * speed) \div 1000
           a2 == IF x1 < 0 \/ x1 > fieldSize THEN (12 - a1) % 8 ELSE a1
           a3 == IF z1 < 0 \/ z1 > fieldSize THEN (8 - a2) % 8 ELSE a2
           y1 == motion.Y + (terrain - motion.Y) \div 5
       IN  motion' = [X |-> Clamp(x1, 0, fieldSize), Y |-> Clamp(y1, minY, maxY),
                      Z |-> Clamp(z1, 0, fieldSize), Angle |-> a3, Speed |-> speed,
                      n |-> motion.n + 1]
    /\ UNCHANGED <<proc, codec, online, netVars, connVars, frontVars, wireVars, ingVars,
                   hkVars, muxVars, sessVars>>

MotionNext ==
    \E turn \in {-1, 0, 1}, sharp \in {-2, 0, 2}, speed \in Speeds \cup {motion.Speed},
       terrain \in TerrainHeights : MotionUpdate(turn, sharp, speed, terrain)

MotionSpec == MotionInit /\ [][MotionNext]_vars

(***************************************************************************)
(* createPackedHeights by itself, on values of 0 .. 511.                   *)
(***************************************************************************)
HeightInputs == 0..511

HeightsInit ==
    /\ ConnInit /\ proc = Booted /\ motion = MotionIdle /\ online = OnlineIdle
    /\ codec \in {[pc |-> "pack", y |-> v, longs |-> <<>>] : v \in HeightInputs}

PackHeights ==
    /\ codec.pc = "pack"
    /\ codec' = [codec EXCEPT !.pc = "packed", !.longs = createPackedHeights(codec.y)]
    /\ CodecUnchanged

HeightsSpec == HeightsInit /\ [][PackHeights]_vars

(***************************************************************************)
(* The player count: startPlayerCountSimulator, which main starts with go  *)
(* before its accept loop, and the status responders (sendFakeStatus),     *)
(* over currentOnline and onlineLock.  The model serves one status request *)
(* at a time.                                                              *)
(***************************************************************************)
MaxTicks == 2
MaxRequests == 2

\* cfg.OnlineMin and cfg.OnlineMax, with online_min <= online_max.
OnlineConfigs == {<<0, 0>>, <<3, 3>>, <<2, 9>>, <<5, 6>>, <<0, 4>>}

\* Go's /: the quotient is truncated toward zero.
GoQuot(a, b) == IF a >= 0 THEN a \div b ELSE -((-a) \div b)

\* getSecureRandomInt(7) - 3 over the values of the random byte.
OnlineChanges == {(b % 7) - 3 : b \in 0..255}

\* if newVal < cfg.OnlineMin { ... }  if newVal > cfg.OnlineMax { ... }
ClampOnline(newVal, lo, hi) ==
    LET v == IF newVal < lo THEN lo ELSE newVal
    IN  IF v > hi THEN hi ELSE v

\* main is in its accept loop and has started the simulator's goroutine,
\* which has not run yet; currentOnline has the zero value of its type.
OnlineInit ==
    /\ ConnInit /\ proc = Booted /\ codec = CodecIdle /\ motion = MotionIdle
    /\ online \in {[OnlineIdle EXCEPT !.min = c[1], !.max = c[2], !.simPc = "start",
                                      !.reqPc = "idle"] : c \in OnlineConfigs}

OnlineUnchanged ==
    UNCHANGED <<proc, codec, motion, netVars, connVars, frontVars, wireVars, ingVars,
                hkVars, muxVars, sessVars>>

\* onlineLock.Lock() in the simulator, before the first assignment and on a
\* tick of the ticker.
SimLock ==
    /\ online.lock = "free"
    /\ \/ online.simPc = "start" /\ online' = [online EXCEPT !.lock = "sim", !.simPc = "init"]
       \/ /\ online.simPc = "wait" /\ online.ticks < MaxTicks
          /\ online' = [online EXCEPT !.lock = "sim", !.simPc = "tick",
                                      !.ticks = @ + 1]
    /\ OnlineUnchanged

\* currentOnline = (cfg.OnlineMin + cfg.OnlineMax) / 2, then Unlock.
SimStart ==
    /\ online.simPc = "init"
    /\ online' = [online EXCEPT !.currentOnline = GoQuot(online.min + online.max, 2),
                                !.lock = "free", !.simPc = "wait"]
    /\ OnlineUnchanged

\* The body of the loop with the lock held, then Unlock.
SimTick(change) ==
    /\ online.simPc = "tick"
    /\ online' = [online EXCEPT
                     !.currentOnline = ClampOnline(online.currentOnline + change,
                                                   online.min, online.max),
                     !.lock = "free", !.simPc = "wait"]
    /\ OnlineUnchanged

\* sendFakeStatus: onlineLock.Lock().
StatusLock ==
    /\ online.reqPc = "idle" /\ online.lock = "free"
    /\ Len(online.reported) < MaxRequests
    /\ online' = [online EXCEPT !.lock = "status", !.reqPc = "locked"]
    /\ OnlineUnchanged

\* on := currentOnline, then Unlock.
StatusRead ==
    /\ online.reqPc = "locked"
    /\ online' = [online EXCEPT !.on = online.currentOnline, !.lock = "free",
                                !.reqPc = "respond"]
    /\ OnlineUnchanged

\* The response is built with Players.Online = on and written.
StatusRespond ==
    /\ online.reqPc = "respond"
    /\ online' = [online EXCEPT !.reported = Append(@, online.on), !.reqPc = "idle"]
    /\ OnlineUnchanged

OnlineNext ==
    \/ SimLock
    \/ SimStart
    \/ \E change \in OnlineChanges : SimTick(change)
    \/ StatusLock
    \/ StatusRead
    \/ StatusRespond

OnlineSpec == OnlineInit /\ [][OnlineNext]_vars


(***************************************************************************)
(* Properties.                                                             *)
(***************************************************************************)
\* The Write calls of session s that reached the socket, in order.
WireOf(s) ==
    LET OfSession(e) == e.sess = s
    IN  SelectSeq(wire, OfSession)

\* The session's goroutines have been started (startMuxTunnel has run).
Started(s) == ingPc[s] # "none"

\* C1: within one tunnel session the Write calls of one outer packet (those of
\* its length prefix, then its body) are contiguous on the socket: a Write
\* call that is not the last of its packet is followed by the next Write call
\* of the same packet, never by one of another packet of the session.
C1_PacketsContiguous ==
    \A i \in 1..(Len(wire) - 1) :
        (wire[i].k > 0 /\ wire[i].k < wire[i].n /\ wire[i + 1].sess = wire[i].sess)
            => (wire[i + 1].ser = wire[i].ser /\ wire[i + 1].k = wire[i].k + 1)


\* C2: a tunnel session starts only from the Login state (entered by a
\* handshake with next_state = 2) on a Login Start whose name is a key of
\* validUsers; the session's key is the digest of the secret validUsers maps
\* that name to; tunnel packets reach the socket, and the session's goroutines,
\* inner bytes and streams exist, only for a session started that way.
C2_SessionState ==
    /\ \A i \in 1..Len(wire) : wire[i].id \in TunnelIds => wire[i].sess \in 1..nsess
    /\ \A s \in Sessions :
          IF s <= nsess
          THEN \E e \in validUsers : e.name = sessName[s] /\ sessKey[s] = Sha256(e.pwd)
          ELSE /\ ingPc[s] = "none" /\ hkPc[s] = "none" /\ muxSt[s] = "none"
               /\ inner[s] = <<>> /\ streams[s] = <<>>
               /\ hkW[s] = NoWrite /\ muxW[s] = NoWrite

C2_SessionStep ==
    /\ nsess' # nsess =>
          /\ nsess' = nsess + 1 /\ state = 2 /\ last'.st = 2
          /\ \E e \in validUsers :
                /\ last'.body = Buf(LoginStartBody(e.name), 0)
                /\ sessName'[nsess'] = e.name
    /\ (state' = 2 /\ state # 2) =>
          (last'.st = 0 /\ last'.body = Buf(HandshakeBody(2), 0))

C2_TunnelOnlyByValidLogin == [] C2_SessionState /\ [][C2_SessionStep]_vars

\* A session that proxies a stream and has written a Chunk Data packet.
C2_SessionProxies ==
    /\ nsess = 1 /\ streams[1] # <<>> /\ streams[1][1] = "copy"
    /\ \E i \in 1..Len(wire) : wire[i].id = PID_CB_ChunkData

\* C3: once a Login Start has been rejected, the connection starts no tunnel
\* session: the number of sessions stays what it was at the rejection.
C3_RejectedNeverTunnel == rejSess >= 0 => nsess = rejSess

\* C4: a handshake packet whose next_state is neither 1 nor 2, or whose
\* payload is cut short, closes the connection: after processPacket has
\* handled such a packet in the Handshake state the socket is closed, and the
\* state variable is never anything but Handshake (0), Status (1) or Login (2).
C4_BadHandshakeCloses ==
    /\ state \in {0, 1, 2}
    /\ (last.st = 0 /\ PacketId(last.body) = 0
          /\ last.body \notin {Buf(HandshakeBody(1), 0), Buf(HandshakeBody(2), 0)})
            => ~connOpen

\* C5: on the socket, the packets of a session begin with Login Success, Join
\* Game, Player Position in that order, and every Keep-Alive, Chunk Data and
\* Time Update of the session comes after them; inner bytes are read, and
\* streams opened, only once startDeepCoverSession has made the three writes;
\* on a socket that still takes writes all three have then reached it.
C5_HandshakeSequenceFirst ==
    \A s \in Sessions :
        LET W == WireOf(s)
        IN  /\ \A i \in 1..Len(W) :
                  IF i <= 3
                  THEN W[i].id = <<PID_CB_LoginSuccess, PID_CB_JoinGame, PID_CB_PlayerPos>>[i]
                  ELSE W[i].id \in {PID_CB_KeepAlive, PID_CB_ChunkData, PID_CB_TimeUpdate}
            /\ (ingested[s] # <<>> \/ inner[s] # <<>> \/ streams[s] # <<>>
                  \/ hkW[s] # NoWrite \/ muxW[s] # NoWrite) => Started(s)
            /\ (Started(s) /\ CanWrite) => Len(W) >= 3

\* A session whose three packets are followed by a Keep-Alive and a Chunk
\* Data packet, and that has read inner bytes.
C5_SequenceThenTraffic ==
    LET W == WireOf(1)
    IN  /\ Len(W) >= 5 /\ inner[1] # <<>>
        /\ \E i \in 4..Len(W) : W[i].id = PID_CB_ChunkData

\* A step of one of the connection's goroutines that needs no tick, no call
\* of the mux and nothing more from the peer.
GoroutineStep ==
    \/ HandlerReadFail \/ HandlerDispatch \/ StartMuxTunnel \/ AcceptReturn
    \/ \E i \in 1..3 : HandshakeStep(i)
    \/ \E i \in 1..MaxStreams : AcceptStream(i)
    \/ \E s \in Sessions :
          \/ IngestFail(s) \/ IngestPacket(s) \/ HkWrite(s)
          \/ MuxRead(s) \/ MuxReadEOF(s) \/ MuxWritePart(s)
          \/ \E i \in 1..MaxStreams : StreamDial(s, i) \/ StreamFail(s, i) \/ StreamCopyEnd(s, i)
          \/ \E i \in 1..MaxStreams, d \in Dirs : CopyReturn(s, i, d) \/ CopySend(s, i, d)

\* C6: once the socket of a tunnel session is closed, every goroutine of the
\* session exits: when handleConnection has returned (it closes the socket
\* before it does) and no goroutine can take a step any more, the ingest
\* goroutine, the housekeeping goroutine, the accept loop and each stream's
\* handler have returned.
C6_TasksExitAfterClose ==
    (~connOpen /\ hpc = "done" /\ ~ENABLED GoroutineStep) =>
        \A s \in Sessions :
            Started(s) =>
                /\ ingPc[s] = "exit"
                /\ hkPc[s] \notin {"select", "write"}
                /\ ~(s = nsess /\ hpc = "accept")
                /\ \A i \in 1..Len(streams[s]) : streams[s][i] \in {"failed", "closed"}

\* C7: conn.Close() is called at most once on a connection that ran a tunnel
\* session (and rejected no login).
C7_ClosedOnce == (nsess >= 1 /\ rejSess = -1) => closeCalls <= 1

\* C8: the tickers of a session are stopped on shutdown: once the session has
\* shut down and the socket is closed, no tick of the housekeeping goroutine
\* starts another write.
C8_NoTickAfterShutdown ==
    [][\A s \in Sessions :
          (muxSt[s] = "shut" /\ ~connOpen) => ~(hkPc[s] = "select" /\ hkPc'[s] = "write")]_vars

\* C9: in the Tunnel state no frame whose declared length exceeds 1,048,576
\* has its body read: the ingest goroutine reads the body of no such frame.
C9_OversizeNeverRead ==
    \A s \in Sessions : \A i \in 1..Len(ingested[s]) :
        ~TooLong(FrameLength(ingested[s][i]))

\* The plaintext of a frame that is tunnel data for session s: a plugin
\* message on one of the two channels, sealed under the session's key.
TunnelDataOf(s, f) ==
    LET good == {c \in {ChanTunnel, ChanBrand} \X {"hunter2", "s3cret"} \X {PtOpen, PtData} :
                    Sha256(c[2]) = sessKey[s] /\ f = F_Plugin(c[1], c[2], c[3])}
    IN  {c[3] : c \in good}

RECURSIVE TunnelDataIn(_, _)
TunnelDataIn(s, frames) ==
    IF frames = <<>> THEN <<>>
    ELSE LET pts == TunnelDataOf(s, Head(frames))
         IN  (IF pts = {} THEN <<>> ELSE <<CHOOSE pt \in pts : TRUE>>)
                 \o TunnelDataIn(s, Tail(frames))

\* What the ingest goroutine of session s has written to the pipe, in order
\* (the last write may still wait for the mux to read it).
PipeWrites(s) == inner[s] \o (IF ingPc[s] = "pipe" THEN <<ingPt[s]>> ELSE <<>>)

\* C10: what the ingest goroutine writes to the pipe is exactly the plaintexts
\* of the frames that are tunnel data, in the order of the frames: a frame
\* that is not tunnel data adds nothing, and every tunnel-data frame read
\* after it is still delivered.  Reading a frame that is not tunnel data
\* changes nothing but the reader's position: nothing is emitted, the socket
\* is not closed, the session does not shut down.
C10_PipeIsTunnelData ==
    \A s \in Sessions : PipeWrites(s) = TunnelDataIn(s, ingested[s])

C10_DropStep ==
    \A s \in Sessions :
        (ingested'[s] # ingested[s]
           /\ TunnelDataOf(s, ingested'[s][Len(ingested'[s])]) = {})
          => /\ UNCHANGED <<wire, connOpen, closeCalls, muxSt, inner, ingPt, streams>>
             /\ ingPc'[s] = "read"

C10_DroppedSilently == [] C10_PipeIsTunnelData /\ [][C10_DropStep]_vars

\* A session that has dropped a frame and then delivered the plaintext of a
\* later one to the mux, the socket still open.
C10_DeliveredAfterDrop ==
    /\ connOpen /\ muxSt[1] = "run" /\ Len(ingested[1]) >= 2
    /\ TunnelDataOf(1, ingested[1][1]) = {}
    /\ TunnelDataOf(1, ingested[1][2]) # {}
    /\ Len(inner[1]) = 1

RECURSIVE Flatten(_)
Flatten(seqs) == IF seqs = <<>> THEN <<>> ELSE Head(seqs) \o Flatten(Tail(seqs))

\* C11: the bytes the mux has read from the pipe of a session are a prefix of
\* the concatenation, in the order the frames arrived, of the plaintexts of
\* the frames that verified; what it has not read yet is at most the one
\* plaintext the ingest goroutine is writing; and a read only appends the
\* plaintext being written (nothing is reordered, duplicated or lost).
C11_PipeState ==
    \A s \in Sessions :
        LET got == Flatten(inner[s])
            arrived == Flatten(TunnelDataIn(s, ingested[s]))
        IN  /\ Len(got) <= Len(arrived)
            /\ got = SubSeq(arrived, 1, Len(got))
            /\ arrived = got \o (IF ingPc[s] = "pipe" THEN ingPt[s] ELSE <<>>)

C11_PipeStep ==
    \A s \in Sessions :
        inner'[s] # inner[s] =>
            /\ ingPc[s] = "pipe" /\ ingested'[s] = ingested[s]
            /\ Flatten(inner'[s]) = Flatten(inner[s]) \o ingPt[s]

C11_PipeInArrivalOrder == [] C11_PipeState /\ [][C11_PipeStep]_vars

\* Two different plaintexts have gone through the pipe.
C11_TwoPlaintextsRead ==
    /\ Len(inner[1]) = 2 /\ inner[1][1] # inner[1][2]
    /\ Len(ingested[1]) = 2

\* The peer's side of the transport.  It skips the packet id, the chunk
\* coordinates and the heightmap, reads the VarInt length of the sealed bytes
\* and opens them with the session key: [err, pt].
PeerOpenChunk(key, body) ==
    LET afterPrefix == SubSeq(body, 1 + Len(ChunkDataPrefix(0, 0)) + 1, Len(body))
        l == ReadVarInt(Buf(afterPrefix, 0))
        enc == SubSeq(l.rest.d, 1, l.val)
    IN  IF l.err \/ Len(enc) < NonceSize THEN [err |-> TRUE, pt |-> <<>>]
        ELSE AeadOpen(key, SubSeq(enc, 1, NonceSize), SubSeq(enc, NonceSize + 1, Len(enc)))

\* The body of the Chunk Data packet whose last Write call is wire entry e.
ChunkBodyOf(e, chunkX, chunkZ) ==
    WriteVarInt(PID_CB_ChunkData)
        \o ChunkDataPayload(sessKey[e.sess], e.p, e.nonce, chunkX, chunkZ)

\* The peer reads the socket as a sequence of frames.  Write call i keeps
\* the framing when it starts a packet after a complete one or continues its
\* own packet; the peer can frame the bytes before the first call that does not.
KeepsFraming(i) ==
    LET e == wire[i]
        complete == i = 1 \/ wire[i - 1].k = wire[i - 1].n
    IN  IF e.k <= 1 THEN complete
        ELSE i > 1 /\ wire[i - 1].ser = e.ser /\ wire[i - 1].k = e.k - 1

FramedUpTo ==
    IF \A i \in 1..Len(wire) : KeepsFraming(i) THEN Len(wire)
    ELSE (CHOOSE i \in 1..Len(wire) :
              ~KeepsFraming(i) /\ \A j \in 1..(i - 1) : KeepsFraming(j)) - 1

IsChunkBody(e) == e.id = PID_CB_ChunkData /\ e.k = e.n

RECURSIVE ChunkEntries(_)
ChunkEntries(w) ==
    IF w = <<>> THEN <<>>
    ELSE (IF IsChunkBody(Head(w)) THEN <<Head(w)>> ELSE <<>>) \o ChunkEntries(Tail(w))

ChunkCoords == {0, 124}

\* C12: for the Chunk Data packets that reached the socket, what the peer
\* gets by framing the socket's bytes and opening the sealed bytes of each
\* Chunk Data packet with the session key is, packet by packet and in the
\* order of the socket, the arguments of the Write calls.
C12_TransportRoundTrip ==
    LET emitted == ChunkEntries(wire)
        framed == ChunkEntries(SubSeq(wire, 1, FramedUpTo))
    IN  /\ \A i \in 1..Len(emitted) : \A chunkX \in ChunkCoords :
              LET opened == PeerOpenChunk(sessKey[emitted[i].sess],
                                          ChunkBodyOf(emitted[i], chunkX, 124 - chunkX))
              IN  ~opened.err /\ opened.pt = emitted[i].p
        /\ Len(framed) = Len(emitted)

\* The same round trip for the packets alone, however the socket frames them.
C12_PacketRoundTrip ==
    \A i \in 1..Len(wire) : \A chunkX \in ChunkCoords :
        IsChunkBody(wire[i]) =>
            LET opened == PeerOpenChunk(sessKey[wire[i].sess],
                                        ChunkBodyOf(wire[i], chunkX, 124 - chunkX))
            IN  ~opened.err /\ opened.pt = wire[i].p

RECURSIVE Succeeded(_)
Succeeded(rets) ==
    IF rets = <<>> THEN <<>>
    ELSE (IF Head(rets).err THEN <<>> ELSE <<Head(rets).p>>) \o Succeeded(Tail(rets))

\* C13: every MinecraftConn.Write(P) that has returned reported len(P); the
\* call made one WritePacket, with id 0x25: the Chunk Data packets of a
\* session on the socket are, one for one and in order, the calls that
\* returned no error, every Write call of such a call's packet is on the
\* socket once, and a call that returned an error put no whole packet there.
C13_OnePacketPerWrite ==
    \A s \in Sessions :
        /\ \A i \in 1..Len(muxRet[s]) :
              LET r == muxRet[s][i]
                  calls == {j \in 1..Len(wire) : wire[j].ser = r.ser}
              IN  /\ r.n = Len(r.p)
                  /\ \A j \in calls : wire[j].id = PID_CB_ChunkData /\ wire[j].sess = s
                  /\ \A j, k \in calls : wire[j].k = wire[k].k => j = k
                  /\ r.err = (\A j \in calls : ~IsChunkBody(wire[j]))
                  /\ ~r.err => Cardinality(calls) = WritePacketParts(PID_CB_ChunkData,
                                                                    ChunkPayloadLen(r.p))
        /\ LET emitted == ChunkEntries(WireOf(s))
           IN  [i \in 1..Len(emitted) |-> emitted[i].p] = Succeeded(muxRet[s])

\* A call of a session has returned without error and a later one has
\* failed.
C13_WritesReturned ==
    /\ Len(muxRet[1]) = 2
    /\ ~muxRet[1][1].err /\ muxRet[1][2].err /\ Len(muxRet[1][2].p) = 2

\* C14: the server listens only if no two configured passwords derive the
\* same username and no two items share a nickname; then every item has its
\* own entry in validUsers (none was replaced).
C14_DuplicatesAreFatal ==
    proc.pc = "listening" =>
        /\ \A i, j \in 1..Len(proc.items) :
              i # j => /\ expectedUser(proc.items[i].pwd) # expectedUser(proc.items[j].pwd)
                       /\ (proc.items[i].nick # "" => proc.items[i].nick # proc.items[j].nick)
        /\ \A i \in 1..Len(proc.items) :
              [name |-> expectedUser(proc.items[i].pwd), pwd |-> proc.items[i].pwd]
                  \in proc.validUsers

\* C15: whatever a peer sends on its connection, the process goes on: main
\* stays in its accept loop.
C15_ProcessSurvives == proc.pc = "listening"

\* A stream's handler ends without having dialed.
StreamEndsUndialed(s, i) ==
    streams[s][i] = "dest" /\ streams'[s][i] \notin {"dest", "copy"}

\* C16: when the handler of an accepted stream ends because the destination
\* is malformed or the dial fails, the stream is closed and nothing else
\* changes: the process and the session go on, the accept loop is where it
\* was, the other streams are as they were.
C16_BadDestinationClosesStreamOnly ==
    [][\A s \in Sessions : \A i \in 1..Len(streams[s]) :
          StreamEndsUndialed(s, i) =>
              /\ streams'[s][i] = "failed"
              /\ proc' = proc /\ muxSt' = muxSt /\ hpc' = hpc /\ connOpen' = connOpen
              /\ \A j \in 1..Len(streams[s]) : j # i => streams'[s][j] = streams[s][j]]_vars

\* What does hold: a handler that returns (ReadString or the dial gave an
\* error) closes its stream and changes nothing else.
C16_ReturnClosesStreamOnly ==
    [][\A s \in Sessions : \A i \in 1..Len(streams[s]) :
          (streams[s][i] = "dest" /\ streams'[s][i] = "failed") =>
              /\ proc' = proc /\ muxSt' = muxSt /\ hpc' = hpc /\ connOpen' = connOpen
              /\ \A j \in 1..Len(streams[s]) : j # i => streams'[s][j] = streams[s][j]]_vars

\* The steps of handleStream and its two io.Copy goroutines after the dial.
StreamStep(s, i) ==
    \/ StreamCopyEnd(s, i)
    \/ \E d \in Dirs : CopyReturn(s, i, d) \/ CopySend(s, i, d)

CopyEnded(s, i) == \E d \in Dirs : copies[s][i].pc[d] \in {"send", "exit"}

\* C17: handleStream returns, closing stream and target, only after a copy
\* direction has ended; and once one has ended, handleStream and the two
\* io.Copy goroutines all come to their end: while the process runs they can
\* only be at rest with stream and target closed and both goroutines past
\* their send on done.
C17_StreamState ==
    \A s \in Sessions : \A i \in 1..Len(streams[s]) :
        /\ streams[s][i] = "closed" => CopyEnded(s, i)
        /\ (proc.pc = "listening" /\ CopyEnded(s, i) /\ ~ENABLED StreamStep(s, i)) =>
              /\ streams[s][i] = "closed"
              /\ \A d \in Dirs : copies[s][i].pc[d] = "exit"

\* The step that closes stream and target is the one in which handleStream
\* receives from done, and it can be taken as soon as a value is in done.
C17_StreamStep ==
    \A s \in Sessions : \A i \in 1..Len(streams[s]) :
        /\ (streams[s][i] # "closed" /\ streams'[s][i] = "closed") =>
              (copies[s][i].done > 0 /\ copies'[s][i].done = copies[s][i].done - 1)
        /\ (proc.pc = "listening" /\ streams[s][i] = "copy" /\ copies[s][i].done > 0) =>
              ENABLED StreamCopyEnd(s, i)

C17_BothClosedThenAllEnd == []C17_StreamState /\ [][C17_StreamStep]_vars

\* The target ended first; handleStream closed both, and the goroutine that
\* was still copying from the stream ended after that.
C17_StreamWoundUp ==
    /\ streams[1] # <<>> /\ streams[1][1] = "closed"
    /\ copies[1][1].eof = {"down"}
    /\ \A d \in Dirs : copies[1][1].pc[d] = "exit"
    /\ copies[1][1].done = 1

\* The packet id as the bytes of a body spell it (one or two bytes), and the
\* bytes that follow it.
WireId(d) == IF d[1] < 128 THEN d[1] ELSE (d[1] - 128) + 128 * d[2]
AfterWireId(d) == IF d[1] < 128 THEN SubSeq(d, 2, Len(d)) ELSE SubSeq(d, 3, Len(d))

IsStatusRequest(f) == f.d # <<>> /\ WireId(f.d) = 0
IsStatusPing(f) == f.d # <<>> /\ WireId(f.d) = 1 /\ f.z = 0

\* C18: in Status a connection stays in Status and starts no session.
C18_StatusState ==
    state = 1 => (nsess = 0 /\ hpc \in {"loop", "done"})

\* C18: a request read in Status puts exactly one status response on the
\* socket, a ping exactly one packet of id 0x01 that carries the bytes which
\* followed the ping's id (the socket being writable); the state stays Status.
C18_StatusStep ==
    /\ state = 1 => state' = 1
    /\ (HandlerDispatch /\ state = 1) =>
          LET f == ReaderFrame
          IN  /\ (IsStatusRequest(f) /\ CanWrite) =>
                    /\ Len(wire') = Len(wire) + 1
                    /\ SubSeq(wire', 1, Len(wire)) = wire
                    /\ wire'[Len(wire')].id = PID_CB_StatusResp
              /\ (IsStatusPing(f) /\ CanWrite) =>
                    /\ Len(wire') = Len(wire) + 1
                    /\ SubSeq(wire', 1, Len(wire)) = wire
                    /\ wire'[Len(wire')].id = PID_CB_Ping
                    /\ wire'[Len(wire')].p = AfterWireId(f.d)
              /\ connOpen' = connOpen /\ hpc' = hpc

C18_StatusAnswersInStatus == []C18_StatusState /\ [][C18_StatusStep]_vars

\* A request and a two-byte-id ping were read in Status and answered in
\* that order, the ping's reply carrying the ping's two payload bytes.
C18_RequestAndPingAnswered ==
    /\ state = 1 /\ Len(wire) = 2
    /\ wire[1].id = PID_CB_StatusResp
    /\ wire[2].id = PID_CB_Ping /\ wire[2].p = <<5, 6>>

\* A frame whose body starts with an id that processPacket has no case for
\* in state st.
Unhandled(st, f) ==
    /\ f.d # <<>>
    /\ \/ st \in {0, 2} /\ WireId(f.d) # 0
       \/ st = 1 /\ WireId(f.d) \notin {0, 1}

\* C19: a whole frame whose id processPacket does not handle in the state of
\* the connection is read and dropped: nothing is written, the state, the
\* socket and the handler stay as they were.
C19_UnhandledIgnored ==
    [][(HandlerDispatch /\ Unhandled(state, ReaderFrame)) =>
          /\ wire' = wire /\ nextSer' = nextSer
          /\ state' = state
          /\ connOpen' = connOpen /\ closeCalls' = closeCalls
          /\ hpc' = hpc /\ nsess' = nsess /\ rejSess' = rejSess]_vars

\* An unhandled id was read in Status and the connection is as before, ready
\* for the next frame.
C19_UnknownReadInStatus ==
    /\ last.st = 1 /\ last.body = FrameBody(F_Unknown)
    /\ state = 1 /\ hpc = "loop" /\ connOpen /\ wire = <<>>
    /\ rbuf = <<>> /\ sockq = <<>>

\* C20: for every n of 0 .. 2^31 - 1, WriteVarInt(n) is at most 5 bytes, and
\* ReadVarInt on those bytes, whatever follows them, returns n with no error
\* and leaves exactly what follows them unread.
C20_VarIntRoundTrip ==
    /\ codec.pc \in {"read", "done"} => Len(codec.w) \in 1..5
    /\ codec.pc = "done" =>
          /\ ~codec.r.err
          /\ codec.r.hi * Pow2_28 + codec.r.val = codec.n
          /\ codec.r.rest = Buf(codec.trailer, 0)

\* 2^31 - 1 went through five bytes and back, with bytes after it.
C20_LargestRoundTrips ==
    /\ codec.pc = "done"
    /\ codec.n = 7 * Pow2_28 + (Pow2_28 - 1)
    /\ codec.w = <<255, 255, 255, 255, 7>>
    /\ codec.trailer = <<255, 1>>

\* The reader's bytes start with five bytes that have the top bit set.
ChainOfFive(bytes) == Len(bytes) >= 5 /\ \A k \in 1..5 : bytes[k] >= 128

\* C21: on bytes that start with five continuation bytes ReadVarInt fails,
\* and the error is the one for a VarInt that is too long.
C21_ChainOfFiveIsOverlong ==
    (codec.pc = "rawdone" /\ ChainOfFive(codec.w \o codec.trailer)) =>
        (codec.r.err /\ codec.r.why = "too big")

\* C22: no decode of a string makes a buffer longer than the cap: the slice
\* processPacket makes for the name of a Login Start is at most 32773 bytes.
C22_NameAllocCapped == last.alloc <= MaxStringLen

\* What does hold: ReadString answers a declared length over the cap with
\* an error, before it makes the slice.
C22_ReadStringCapped ==
    /\ ReadString(Buf(DestTooLong, 0)).err
    /\ ReadString(Buf(WriteVarInt(MaxStringLen) \o <<1>>, MaxStringLen - 1)).err = FALSE

\* The 9-bit field of position i in the packed longs.
HeightField(longs, i) ==
    LET bits == longs[i \div 7]
        o == 9 * (i % 7)
    IN  bits[o] + 2 * bits[o + 1] + 4 * bits[o + 2] + 8 * bits[o + 3] + 16 * bits[o + 4]
        + 32 * bits[o + 5] + 64 * bits[o + 6] + 128 * bits[o + 7] + 256 * bits[o + 8]

\* The bit belongs to the field of one of the positions 0..255.
InHeightField(longIndex, bit) ==
    \E i \in 0..255 : i \div 7 = longIndex /\ bit \in (9 * (i % 7))..(9 * (i % 7) + 8)

\* C23: createPackedHeights(v) is 37 longs, the field of every position
\* 0..255 holds v, and every bit outside these fields is 0.
C23_PackedHeightsHoldValue ==
    codec.pc = "packed" =>
        /\ DOMAIN codec.longs = 0..36
        /\ \A i \in 0..255 : HeightField(codec.longs, i) = codec.y
        /\ \A longIndex \in 0..36 : \A bit \in 0..63 :
              ~InHeightField(longIndex, bit) => codec.longs[longIndex][bit] = 0

\* 511 is packed: the last field (position 255, bits 27..35 of long 36) is
\* all ones and the bit after it is 0.
C23_AllOnesPacked ==
    /\ codec.pc = "packed" /\ codec.y = 511
    /\ \A bit \in 27..35 : codec.longs[36][bit] = 1
    /\ codec.longs[36][36] = 0 /\ codec.longs[0][63] = 0

\* C24: a MotionGenerator, new or after any Update calls, has X and Z in
\* 0..2000 and Y in 85..110.
C24_MotionInBounds ==
    /\ motion.X >= 0 /\ motion.X <= 2000
    /\ motion.Z >= 0 /\ motion.Z <= 2000
    /\ motion.Y >= 85 /\ motion.Y <= 110

\* An Update that ran into the far X wall: X is on the wall and the
\* generator heads back.
C24_BouncedOffFarWall ==
    /\ motion.n > 0 /\ motion.X = 2000 /\ motion.Z < 2000
    /\ CosMilli(motion.Angle) < 0

\* The frames the connection's reader holds or will get, in order.
Inbound == rbuf \o sockq

\* A frame taken by handleConnection's loop: dispatched, or the read failed.
FrontEndTakes(f) ==
    /\ hpc = "loop"
    /\ hpc' = "done" \/ last'.body = FrameBody(f)

\* A frame taken by the ingest goroutine of session s: parsed, or the read
\* failed.
IngestTakes(s, f) ==
    /\ ingPc[s] = "read"
    /\ ingPc'[s] = "exit" \/ ingested'[s] = Append(ingested[s], f)

\* C25: no inbound byte is lost or taken twice on the way from Login to
\* Tunnel: every step leaves the inbound frames alone, adds one the peer
\* sent at the end, or takes the first one; before a session has started
\* the taker is handleConnection's loop, and from then on it is the
\* session's ingest goroutine, so what the reader held beyond the Login
\* Start is what the ingest parses first.
C25_NoByteLost ==
    [][\/ Inbound' = Inbound
       \/ Len(Inbound') = Len(Inbound) + 1 /\ SubSeq(Inbound', 1, Len(Inbound)) = Inbound
       \/ /\ Inbound # <<>> /\ Inbound' = Tail(Inbound)
          /\ IF nsess = 0 THEN FrontEndTakes(Head(Inbound))
             ELSE IngestTakes(nsess, Head(Inbound))]_vars

\* What does hold: a frame that leaves the reader is taken whole by one
\* reader, and until the first session's Accept loop has returned the
\* readers are as C25 says.
C25_TakenByOneReader ==
    [][\/ Inbound' = Inbound
       \/ Len(Inbound') = Len(Inbound) + 1 /\ SubSeq(Inbound', 1, Len(Inbound)) = Inbound
       \/ /\ Inbound # <<>> /\ Inbound' = Tail(Inbound)
          /\ IF nsess = 0 THEN FrontEndTakes(Head(Inbound))
             ELSE IF nsess = 1 /\ hpc # "loop" THEN IngestTakes(1, Head(Inbound))
             ELSE \/ FrontEndTakes(Head(Inbound))
                  \/ \E s \in Sessions : IngestTakes(s, Head(Inbound))]_vars

\* The Write calls on the wire that carry a Time Update.
IsTimeUpdate(i) == wire[i].id = PID_CB_TimeUpdate

\* The place of the Time Update of wire[i] among those of its session.
TimeUpdateNumber(i) ==
    Cardinality({wire[j].ser : j \in {j \in 1..i : IsTimeUpdate(j) /\ wire[j].sess = wire[i].sess}})

\* C26: the k-th Time Update of a session carries world_age = 400 * k and
\* time_of_day = (-world_age) mod 24000, which is in 0..23999.
C26_TimeOfDayNonNegative ==
    \A i \in 1..Len(wire) :
        IsTimeUpdate(i) =>
            /\ wire[i].p[1] = 400 * TimeUpdateNumber(i)
            /\ wire[i].p[2] = (-wire[i].p[1]) % 24000
            /\ wire[i].p[2] >= 0 /\ wire[i].p[2] < 24000

\* What does hold: the world age, and a time of day of minus the world age.
C26_WorldAgeCounts ==
    \A i \in 1..Len(wire) :
        IsTimeUpdate(i) =>
            /\ wire[i].p[1] = 400 * TimeUpdateNumber(i)
            /\ wire[i].p[2] = -wire[i].p[1]

MinusOne == <<255, 255, 255, 255, 15>>

\* C27: ReadVarInt's result on an input of at most five bytes is a signed
\* 32-bit value, and FF FF FF FF 0F reads as -1.
C27_SignedResult ==
    (codec.pc = "rawdone" /\ ~codec.r.err) =>
        /\ GoIntFits32(codec.r, codec.bits)
        /\ codec.w = MinusOne => GoInt(codec.r, codec.bits) = -1

\* What does hold: it is so where int has 32 bits.
C27_SignedWhereIntIs32 ==
    (codec.pc = "rawdone" /\ ~codec.r.err /\ codec.bits = 32) =>
        /\ GoIntFits32(codec.r, codec.bits)
        /\ codec.w = MinusOne => GoInt(codec.r, codec.bits) = -1

WriteVarIntRuns == codec.pc = "emit" \/ codec.pc = "emitted"

\* C30: WriteVarInt ends on every signed 32-bit value after writing one to
\* five bytes: it has never written a sixth, and after the fifth it is over.
C30_WriteVarIntEnds ==
    WriteVarIntRuns =>
        /\ Len(codec.w) <= 5
        /\ Len(codec.w) = 5 => codec.pc = "emitted"

\* What does hold: it is so for the values that are not negative, and the
\* bytes are those of the encoding.
C30_NonNegativeEnds ==
    (WriteVarIntRuns /\ codec.n >= 0) =>
        /\ Len(codec.w) <= 5
        /\ Len(codec.w) = 5 => codec.pc = "emitted"
        /\ codec.pc = "emitted" => codec.w = WriteVarInt(codec.n)

\* C28: at most one tunnel session is started on a connection: after the
\* Login Start that started one, handleConnection's loop dispatches no
\* further packet, so no second Login Start starts a second session.
C28_OneSessionPerConnection == nsess <= 1

\* What does hold: a session is started by the loop only, one at a time, and
\* the next one only when the Accept loop of the one before has returned.
C28_SessionsInTurn ==
    [][nsess' # nsess =>
          /\ hpc = "loop" /\ nsess' = nsess + 1
          /\ nsess >= 1 => muxSt[nsess] = "shut"]_vars

\* handleConnection's loop takes the frame with the empty body.
LoopTakesEmpty ==
    /\ hpc = "loop" /\ Inbound # <<>> /\ Head(Inbound) = F_Empty
    /\ Inbound' = Tail(Inbound)
    /\ ingPc' = ingPc /\ ingested' = ingested

\* C29: a frame of declared length 0 is a framing error: the loop closes the
\* connection and returns without writing; the frame is not dispatched as
\* packet id 0.
C29_EmptyBodyIsFramingError ==
    [][LoopTakesEmpty => (wire' = wire /\ ~connOpen' /\ hpc' = "done")]_vars

\* C31: with online_min <= online_max every status response reports an
\* online count of online_min .. online_max, however the requests fall
\* among the simulator's start and ticks.
C31_ReportedWithinBounds ==
    \A i \in 1..Len(online.reported) :
        online.reported[i] >= online.min /\ online.reported[i] <= online.max

\* What does hold: a count read once the simulator has made its first
\* assignment is within the bounds; the count changes only in a step of the
\* simulator that holds the lock, and by at most 3 on a tick.
C31_WithinBoundsOnceStarted ==
    /\ online.simPc \in {"wait", "tick"} =>
          (online.currentOnline >= online.min /\ online.currentOnline <= online.max)
    /\ (online.lock = "sim") = (online.simPc \in {"init", "tick"})
    /\ (online.lock = "status") = (online.reqPc = "locked")

C31_ChangesUnderLock ==
    [][online'.currentOnline # online.currentOnline =>
          /\ online.lock = "sim"
          /\ online.simPc = "tick" =>
                /\ online'.currentOnline - online.currentOnline <= 3
                /\ online.currentOnline - online'.currentOnline <= 3]_vars

=============================================================================
